---------------------------- MODULE Spec2Model ----------------------------
(***************************************************************************)
(* Model of the adaptive breadth-first domain crawler of carta-mcp:        *)
(* listDomainUrls and its page-fetch primitive scrapeWebPage, in the two   *)
(* revisions the repository carries (src/unnamed/part_005, the revision    *)
(* with the shared browser, link normalisation and exactUrl; and           *)
(* src/web-scraping.ts, the earlier revision).                             *)
(*                                                                         *)
(* Strings are sequences of one-character strings, so that URL parsing,    *)
(* serialisation, normalisation and regular-expression tests are computed  *)
(* character by character as the code computes them.                       *)
(***************************************************************************)
EXTENDS Integers, Sequences, FiniteSets, TLC

(***************************************************************************)
(* Strings                                                                 *)
(***************************************************************************)
Range(s) == {s[i] : i \in 1..Len(s)}

\* the element of a singleton set. Binding a value through a singleton set,
\* The({f(v) : v \in {e}}), has TLC compute e once before f uses it
The(S) == CHOOSE v \in S : TRUE

UpperMap ==
  [c \in {"A","B","C","D","E","F","G","H","I","J","K","L","M",
          "N","O","P","Q","R","S","T","U","V","W","X","Y","Z"} |->
     CASE c = "A" -> "a" [] c = "B" -> "b" [] c = "C" -> "c" [] c = "D" -> "d"
       [] c = "E" -> "e" [] c = "F" -> "f" [] c = "G" -> "g" [] c = "H" -> "h"
       [] c = "I" -> "i" [] c = "J" -> "j" [] c = "K" -> "k" [] c = "L" -> "l"
       [] c = "M" -> "m" [] c = "N" -> "n" [] c = "O" -> "o" [] c = "P" -> "p"
       [] c = "Q" -> "q" [] c = "R" -> "r" [] c = "S" -> "s" [] c = "T" -> "t"
       [] c = "U" -> "u" [] c = "V" -> "v" [] c = "W" -> "w" [] c = "X" -> "x"
       [] c = "Y" -> "y" [] c = "Z" -> "z"]

\* String.prototype.toLowerCase on the ASCII range
toLowerCase(s) ==
  [i \in 1..Len(s) |-> IF s[i] \in DOMAIN UpperMap THEN UpperMap[s[i]] ELSE s[i]]

\* String.prototype.startsWith
startsWith(s, p) == Len(p) <= Len(s) /\ SubSeq(s, 1, Len(p)) = p

\* String.prototype.endsWith
endsWith(s, p) == Len(p) <= Len(s) /\ SubSeq(s, Len(s) - Len(p) + 1, Len(s)) = p

\* least index i >= from with s[i] in cs, Len(s)+1 when there is none
IndexOfAny(s, cs, from) ==
  LET hits == {i \in from..Len(s) : s[i] \in cs}
  IN  IF hits = {} THEN Len(s) + 1 ELSE CHOOSE i \in hits : \A j \in hits : i <= j

\* s.split('/').filter(Boolean): the non-empty segments of s between slashes
RECURSIVE splitSegments(_)
splitSegments(s) ==
  IF s = <<>> THEN <<>>
  ELSE IF s[1] = "/" THEN splitSegments(Tail(s))
  ELSE LET e == IndexOfAny(s, {"/"}, 1)
       IN  <<SubSeq(s, 1, e - 1)>> \o splitSegments(SubSeq(s, e, Len(s)))

(***************************************************************************)
(* Regular expressions.  Every pattern of the crawler has the shape        *)
(*   pre (alt1|alt2|...) end    with the flag i,                           *)
(* pre a literal prefix ("/" or "." or empty) and end one of: nothing,     *)
(* "$", or "(?:\/|$)".  RegExpTest is RegExp.prototype.test for that shape.*)
(***************************************************************************)
RegExpTest(pattern, str) ==
  \E s \in {toLowerCase(str)} :
    \E a \in pattern.alts :
      \E lit \in {toLowerCase(pattern.pre \o a)} :
        \E i \in 1..(Len(s) - Len(lit) + 1) :
          /\ SubSeq(s, i, i + Len(lit) - 1) = lit
          /\ CASE pattern.end = "any" -> TRUE
               [] pattern.end = "eos" -> i + Len(lit) - 1 = Len(s)
               [] pattern.end = "slash_or_eos" ->
                    i + Len(lit) - 1 = Len(s) \/ s[i + Len(lit)] = "/"

\* patterns.some(p => p.test(str))
SomeTest(patterns, str) == \E k \in 1..Len(patterns) : RegExpTest(patterns[k], str)

(***************************************************************************)
(* URLs: new URL(str), the URL getters and setters the crawler uses, and   *)
(* URL.prototype.toString.  The parser covers the inputs of this model:    *)
(* scheme, host, path, query and fragment; no credentials, port,           *)
(* percent-encoding or dot segments.                                       *)
(***************************************************************************)
Letters ==
  {"a","b","c","d","e","f","g","h","i","j","k","l","m",
   "n","o","p","q","r","s","t","u","v","w","x","y","z"}

SchemeChars == Letters \cup {"0","1","2","3","4","5","6","7","8","9","+","-","."}

SpecialSchemes == {<<"h","t","t","p">>, <<"h","t","t","p","s">>}

InvalidURL == [ok |-> FALSE]

\* new URL(str) without a base: a record of URL components, or InvalidURL
\* where the constructor throws a TypeError.  The parser runs in steps, each
\* handing what it has found to the next.
\* last step: the components, given the host, where the path ends (pathEnd)
\* and where the fragment starts (hashAt)
parseComponents(str, scheme, special, host, hostEnd, pathEnd, hashAt) ==
  IF special /\ host = <<>> THEN InvalidURL
  ELSE [ok       |-> TRUE,
        protocol |-> scheme,
        special  |-> special,
        hostname |-> host,
        pathname |-> IF special /\ pathEnd = hostEnd THEN <<"/">>
                     ELSE SubSeq(str, hostEnd, pathEnd - 1),
        hasQuery |-> pathEnd <= Len(str) /\ str[pathEnd] = "?",
        query    |-> IF pathEnd <= Len(str) /\ str[pathEnd] = "?"
                       THEN SubSeq(str, pathEnd + 1, hashAt - 1) ELSE <<>>,
        hasHash  |-> hashAt <= Len(str),
        hash     |-> SubSeq(str, hashAt + 1, Len(str))]

\* the path runs from hostEnd to the first "?" or "#"
parsePath(str, scheme, special, host, hostEnd, pathEnd) ==
  parseComponents(str, scheme, special, host, hostEnd, pathEnd,
                  IndexOfAny(str, {"#"}, pathEnd))

\* the host of a special scheme runs from hostStart to the first "/", "?" or
\* "#"; other schemes have none
parseHost(str, scheme, special, hostStart, hostEnd) ==
  parsePath(str, scheme, special, toLowerCase(SubSeq(str, hostStart, hostEnd - 1)),
            hostEnd, IndexOfAny(str, {"?", "#"}, hostEnd))

parseAuthority(str, scheme, special, hostStart) ==
  parseHost(str, scheme, special, hostStart,
            IF special THEN IndexOfAny(str, {"/", "?", "#"}, hostStart) ELSE hostStart)

\* special schemes: the slashes after the colon are skipped
skipSlashes(str, from) ==
  IF \A i \in from..Len(str) : str[i] = "/" THEN Len(str) + 1
  ELSE CHOOSE i \in from..Len(str) :
         str[i] # "/" /\ \A j \in from..(i - 1) : str[j] = "/"

\* the scheme is what precedes the first colon: a letter, then scheme characters
parseScheme(str, colon, scheme) ==
  IF ~(/\ colon <= Len(str)
       /\ colon > 1
       /\ scheme[1] \in Letters
       /\ \A i \in 1..Len(scheme) : scheme[i] \in SchemeChars)
    THEN InvalidURL
  ELSE parseAuthority(str, scheme, scheme \in SpecialSchemes,
                      IF scheme \in SpecialSchemes THEN skipSlashes(str, colon + 1)
                      ELSE colon + 1)

colonOf(str) == IndexOfAny(str, {":"}, 1)

ParseURL(str) == parseScheme(str, colonOf(str), toLowerCase(SubSeq(str, 1, colonOf(str) - 1)))

\* URL.prototype.toString / href
toString(u) ==
  u.protocol \o <<":">>
    \o (IF u.special THEN <<"/", "/">> \o u.hostname ELSE <<>>)
    \o u.pathname
    \o (IF u.hasQuery THEN <<"?">> \o u.query ELSE <<>>)
    \o (IF u.hasHash THEN <<"#">> \o u.hash ELSE <<>>)

\* URL.prototype.origin: scheme and host of a special URL, the string "null"
\* (an opaque origin) for the other schemes
origin(u) ==
  IF u.special THEN u.protocol \o <<":", "/", "/">> \o u.hostname
  ELSE <<"n", "u", "l", "l">>

\* str.replace(/\/$/, ''): a single trailing slash removed
stripOneTrailingSlash(p) ==
  IF p # <<>> /\ p[Len(p)] = "/" THEN SubSeq(p, 1, Len(p) - 1) ELSE p

\* str.replace(/\/+$/, '')
RECURSIVE stripTrailingSlashes(_)
stripTrailingSlashes(p) ==
  IF p # <<>> /\ p[Len(p)] = "/" THEN stripTrailingSlashes(SubSeq(p, 1, Len(p) - 1))
  ELSE p

\* the pathname setter of a special URL: an empty path becomes "/"
setPathname(u, p) ==
  [u EXCEPT !.pathname = IF p = <<>> THEN <<"/">>
                         ELSE IF p[1] = "/" THEN p ELSE <<"/">> \o p]

\* str.replace(/\.[^/]+$/, ''): drops a final extension of the last segment
removeExtension(p) ==
  LET dots == {i \in 1..(Len(p) - 1) : p[i] = "." /\ \A j \in (i + 1)..Len(p) : p[j] # "/"}
  IN  IF dots = {} THEN p
      ELSE SubSeq(p, 1, (CHOOSE i \in dots : \A j \in dots : i <= j) - 1)

defaultExcludePatterns ==
  <<
    [pre |-> <<".">>, end |-> "eos", alts |-> {
       <<"j","p","g">>,
       <<"j","p","e","g">>,
       <<"p","n","g">>,
       <<"g","i","f">>,
       <<"s","v","g">>,
       <<"w","e","b","p">>,
       <<"i","c","o">>,
       <<"p","d","f">>,
       <<"d","o","c">>,
       <<"d","o","c","x">>,
       <<"x","l","s">>,
       <<"x","l","s","x">>,
       <<"z","i","p">>,
       <<"r","a","r">>,
       <<"e","x","e">>,
       <<"d","m","g">>}],
    [pre |-> <<"/">>, end |-> "any", alts |-> {
       <<"w","p","-">>,
       <<"w","p","/">>,
       <<"w","o","r","d","p","r","e","s","s","/">>,
       <<"w","p","-","c","o","n","t","e","n","t">>,
       <<"w","p","-","i","n","c","l","u","d","e","s">>}],
    [pre |-> <<"/">>, end |-> "any", alts |-> {
       <<"t","a","g">>,
       <<"t","a","g","s">>,
       <<"c","a","t","e","g","o","r","y">>,
       <<"c","a","t","e","g","o","r","i","e","s">>,
       <<"a","u","t","h","o","r">>,
       <<"s","e","a","r","c","h">>,
       <<"p","a","g","e">>,
       <<"c","o","m","m","e","n","t","s">>}],
    [pre |-> <<"/">>, end |-> "any", alts |-> {
       <<"l","o","g","i","n">>,
       <<"r","e","g","i","s","t","e","r">>,
       <<"s","i","g","n","u","p">>,
       <<"s","i","g","n","i","n">>,
       <<"a","u","t","h">>,
       <<"a","c","c","o","u","n","t">>,
       <<"p","r","o","f","i","l","e">>,
       <<"d","a","s","h","b","o","a","r","d">>}],
    [pre |-> <<"/">>, end |-> "any", alts |-> {
       <<"p","r","i","v","a","c","y">>,
       <<"p","r","i","v","a","c","i","d","a","d">>,
       <<"c","o","o","k","i","e","s">>,
       <<"t","e","r","m","s">>,
       <<"t","e","r","m","i","n","o","s">>,
       <<"c","o","n","d","i","c","i","o","n","e","s">>,
       <<"l","e","g","a","l">>,
       <<"a","v","i","s","o","-","l","e","g","a","l">>}],
    [pre |-> <<"/">>, end |-> "any", alts |-> {
       <<"c","o","n","t","a","c","t">>,
       <<"c","o","n","t","a","c","t","o">>,
       <<"a","b","o","u","t">>,
       <<"s","o","b","r","e","-","n","o","s","o","t","r","o","s">>,
       <<"q","u","i","e","n","e","s","-","s","o","m","o","s">>,
       <<"h","i","s","t","o","r","i","a">>}],
    [pre |-> <<"/">>, end |-> "any", alts |-> {
       <<"b","l","o","g">>,
       <<"n","e","w","s">>,
       <<"n","o","t","i","c","i","a","s">>,
       <<"a","r","t","i","c","u","l","o","s">>,
       <<"a","r","t","i","c","l","e","s">>,
       <<"p","r","e","s","s">>,
       <<"p","r","e","n","s","a">>}],
    [pre |-> <<"/">>, end |-> "slash_or_eos", alts |-> {
       <<"s","h","o","p">>,
       <<"t","i","e","n","d","a">>,
       <<"s","t","o","r","e">>,
       <<"c","a","r","r","i","t","o">>,
       <<"c","h","e","c","k","o","u","t">>,
       <<"c","o","m","p","r","a">>}],
    [pre |-> <<"/">>, end |-> "any", alts |-> {
       <<"f","a","q">>,
       <<"f","a","q","s">>,
       <<"h","e","l","p">>,
       <<"a","y","u","d","a">>,
       <<"s","o","p","o","r","t","e">>,
       <<"s","u","p","p","o","r","t">>}],
    [pre |-> <<"/">>, end |-> "any", alts |-> {
       <<"e","v","e","n","t","s">>,
       <<"e","v","e","n","t","o","s">>,
       <<"c","a","l","e","n","d","a","r">>,
       <<"c","a","l","e","n","d","a","r","i","o">>}],
    [pre |-> <<"/">>, end |-> "any", alts |-> {
       <<"g","a","l","l","e","r","y">>,
       <<"g","a","l","e","r","i","a">>,
       <<"p","h","o","t","o","s">>,
       <<"f","o","t","o","s">>,
       <<"v","i","d","e","o","s">>,
       <<"i","m","a","g","e","n","e","s">>}],
    [pre |-> <<"/">>, end |-> "any", alts |-> {
       <<"s","o","c","i","a","l">>,
       <<"f","a","c","e","b","o","o","k">>,
       <<"t","w","i","t","t","e","r">>,
       <<"i","n","s","t","a","g","r","a","m">>,
       <<"l","i","n","k","e","d","i","n">>,
       <<"y","o","u","t","u","b","e">>}],
    [pre |-> <<"/">>, end |-> "any", alts |-> {
       <<"r","s","s">>,
       <<"f","e","e","d">>,
       <<"a","t","o","m">>,
       <<"s","i","t","e","m","a","p">>,
       <<"r","o","b","o","t","s",".","t","x","t">>}],
    [pre |-> <<"/">>, end |-> "any", alts |-> {
       <<"a","p","i">>,
       <<"j","s","o","n">>,
       <<"x","m","l">>,
       <<"g","r","a","p","h","q","l">>,
       <<"w","e","b","h","o","o","k">>}],
    [pre |-> <<"/">>, end |-> "any", alts |-> {
       <<"a","d","s">>,
       <<"a","d","v","e","r","t","i","s","i","n","g">>,
       <<"p","u","b","l","i","c","i","d","a","d">>,
       <<"b","a","n","n","e","r">>}],
    [pre |-> <<"/">>, end |-> "any", alts |-> {
       <<"t","r","a","c","k","i","n","g">>,
       <<"a","n","a","l","y","t","i","c","s">>,
       <<"p","i","x","e","l">>}],
    [pre |-> <<"/">>, end |-> "any", alts |-> {
       <<"c","a","r","e","e","r","s">>,
       <<"j","o","b","s">>,
       <<"e","m","p","l","e","o">>,
       <<"t","r","a","b","a","j","o">>}],
    [pre |-> <<"/">>, end |-> "any", alts |-> {
       <<"d","o","w","n","l","o","a","d">>,
       <<"d","e","s","c","a","r","g","a","r">>,
       <<"u","p","l","o","a","d">>,
       <<"s","u","b","i","r">>}],
    [pre |-> <<"/">>, end |-> "any", alts |-> {
       <<"s","u","b","s","c","r","i","b","e">>,
       <<"s","u","s","c","r","i","b","i","r">>,
       <<"n","e","w","s","l","e","t","t","e","r">>}]
  >>

menuIncludePatterns ==
  <<
    [pre |-> <<>>, end |-> "any", alts |-> {
       <<"m","e","n","u">>,
       <<"c","a","r","t","a">>,
       <<"f","o","o","d">>,
       <<"c","o","m","i","d","a">>,
       <<"p","l","a","t","o","s">>,
       <<"d","i","s","h","e","s">>,
       <<"s","p","e","c","i","a","l","t","i","e","s">>,
       <<"e","s","p","e","c","i","a","l","i","d","a","d","e","s">>}],
    [pre |-> <<>>, end |-> "any", alts |-> {
       <<"d","i","n","n","e","r">>,
       <<"l","u","n","c","h">>,
       <<"b","r","e","a","k","f","a","s","t">>,
       <<"c","e","n","a">>,
       <<"a","l","m","u","e","r","z","o">>,
       <<"d","e","s","a","y","u","n","o">>}],
    [pre |-> <<>>, end |-> "any", alts |-> {
       <<"e","a","t">>,
       <<"c","o","m","e","r">>,
       <<"d","i","n","i","n","g">>,
       <<"c","e","n","a","r">>,
       <<"g","a","s","t","r","o","n","o","m","i","a">>,
       <<"g","a","s","t","r","o","n","o","m","y">>}],
    [pre |-> <<>>, end |-> "any", alts |-> {
       <<"c","u","i","s","i","n","e">>,
       <<"c","o","c","i","n","a">>,
       <<"c","h","e","f">>,
       <<"k","i","t","c","h","e","n">>,
       <<"r","e","c","e","t","a","s">>,
       <<"r","e","c","i","p","e","s">>}],
    [pre |-> <<>>, end |-> "any", alts |-> {
       <<"t","a","p","a","s">>,
       <<"r","a","c","i","o","n","e","s">>,
       <<"p","i","n","c","h","o","s">>,
       <<"e","n","t","r","a","n","t","e","s">>,
       <<"s","t","a","r","t","e","r","s">>,
       <<"a","p","p","e","t","i","z","e","r","s">>}],
    [pre |-> <<>>, end |-> "any", alts |-> {
       <<"m","a","i","n","-","c","o","u","r","s","e","s">>,
       <<"p","l","a","t","o","s","-","p","r","i","n","c","i","p","a","l","e","s">>,
       <<"p","o","s","t","r","e","s">>,
       <<"d","e","s","s","e","r","t","s">>}],
    [pre |-> <<>>, end |-> "any", alts |-> {
       <<"b","e","b","i","d","a","s">>,
       <<"d","r","i","n","k","s">>,
       <<"v","i","n","o","s">>,
       <<"w","i","n","e","s">>,
       <<"c","o","c","k","t","a","i","l","s">>,
       <<"c","o","c","t","e","l","e","s">>}],
    [pre |-> <<>>, end |-> "any", alts |-> {
       <<"v","e","g","e","t","a","r","i","a","n">>,
       <<"v","e","g","e","t","a","r","i","a","n","o">>,
       <<"v","e","g","a","n">>,
       <<"v","e","g","a","n","o">>,
       <<"g","l","u","t","e","n","-","f","r","e","e">>,
       <<"s","i","n","-","g","l","u","t","e","n">>}],
    [pre |-> <<>>, end |-> "any", alts |-> {
       <<"t","a","k","e","a","w","a","y">>,
       <<"p","a","r","a","-","l","l","e","v","a","r">>,
       <<"d","e","l","i","v","e","r","y">>,
       <<"d","o","m","i","c","i","l","i","o">>}]
  >>

cartaPathPatterns ==
  <<
    [pre |-> <<>>, end |-> "any", alts |-> {
       <<"c","a","r","t","a">>,
       <<"m","e","n","u">>,
       <<"f","o","o","d">>,
       <<"c","o","m","i","d","a">>}]
  >>

legacyMenuIncludePatterns ==
  <<
    [pre |-> <<>>, end |-> "any", alts |-> {
       <<"m","e","n","u">>,
       <<"c","a","r","t","a">>,
       <<"f","o","o","d">>,
       <<"c","o","m","i","d","a">>,
       <<"p","l","a","t","o","s">>,
       <<"d","i","s","h","e","s">>,
       <<"s","p","e","c","i","a","l","t","i","e","s">>,
       <<"e","s","p","e","c","i","a","l","i","d","a","d","e","s">>}],
    [pre |-> <<>>, end |-> "any", alts |-> {
       <<"d","i","n","n","e","r">>,
       <<"l","u","n","c","h">>,
       <<"b","r","e","a","k","f","a","s","t">>,
       <<"c","e","n","a">>,
       <<"a","l","m","u","e","r","z","o">>,
       <<"d","e","s","a","y","u","n","o">>}],
    [pre |-> <<>>, end |-> "any", alts |-> {
       <<"r","e","s","t","a","u","r","a","n","t">>,
       <<"r","e","s","t","a","u","r","a","n","t","e">>,
       <<"b","a","r">>,
       <<"c","a","f","e","t","e","r","i","a">>,
       <<"c","a","f","e">>,
       <<"b","i","s","t","r","o">>,
       <<"p","u","b">>}],
    [pre |-> <<>>, end |-> "any", alts |-> {
       <<"e","a","t">>,
       <<"c","o","m","e","r">>,
       <<"d","i","n","i","n","g">>,
       <<"c","e","n","a","r">>,
       <<"g","a","s","t","r","o","n","o","m","i","a">>,
       <<"g","a","s","t","r","o","n","o","m","y">>}],
    [pre |-> <<>>, end |-> "any", alts |-> {
       <<"c","u","i","s","i","n","e">>,
       <<"c","o","c","i","n","a">>,
       <<"c","h","e","f">>,
       <<"k","i","t","c","h","e","n">>,
       <<"r","e","c","e","t","a","s">>,
       <<"r","e","c","i","p","e","s">>}],
    [pre |-> <<>>, end |-> "any", alts |-> {
       <<"t","a","p","a","s">>,
       <<"r","a","c","i","o","n","e","s">>,
       <<"p","i","n","c","h","o","s">>,
       <<"e","n","t","r","a","n","t","e","s">>,
       <<"s","t","a","r","t","e","r","s">>,
       <<"a","p","p","e","t","i","z","e","r","s">>}],
    [pre |-> <<>>, end |-> "any", alts |-> {
       <<"m","a","i","n","-","c","o","u","r","s","e","s">>,
       <<"p","l","a","t","o","s","-","p","r","i","n","c","i","p","a","l","e","s">>,
       <<"p","o","s","t","r","e","s">>,
       <<"d","e","s","s","e","r","t","s">>}],
    [pre |-> <<>>, end |-> "any", alts |-> {
       <<"b","e","b","i","d","a","s">>,
       <<"d","r","i","n","k","s">>,
       <<"v","i","n","o","s">>,
       <<"w","i","n","e","s">>,
       <<"c","o","c","k","t","a","i","l","s">>,
       <<"c","o","c","t","e","l","e","s">>}],
    [pre |-> <<>>, end |-> "any", alts |-> {
       <<"v","e","g","e","t","a","r","i","a","n">>,
       <<"v","e","g","e","t","a","r","i","a","n","o">>,
       <<"v","e","g","a","n">>,
       <<"v","e","g","a","n","o">>,
       <<"g","l","u","t","e","n","-","f","r","e","e">>,
       <<"s","i","n","-","g","l","u","t","e","n">>}],
    [pre |-> <<>>, end |-> "any", alts |-> {
       <<"t","a","k","e","a","w","a","y">>,
       <<"p","a","r","a","-","l","l","e","v","a","r">>,
       <<"d","e","l","i","v","e","r","y">>,
       <<"d","o","m","i","c","i","l","i","o">>}]
  >>

\* the printable ASCII characters in code-unit order, from U+0020
\* (the double quote, the backslash and the backtick, which no input of the model contains, are spelled out)
AsciiTable ==
  <<
    " ","!","quote","#","$","%","&","'","(",")","*","+",",","-",".","/",
    "0","1","2","3","4","5","6","7","8","9",":",";","<","=",">","?",
    "@","A","B","C","D","E","F","G","H","I","J","K","L","M","N","O",
    "P","Q","R","S","T","U","V","W","X","Y","Z","[","backslash","]","^","_",
    "backtick","a","b","c","d","e","f","g","h","i","j","k","l","m","n","o",
    "p","q","r","s","t","u","v","w","x","y","z","{","|","}","~"
  >>

(***************************************************************************)
(* Bounds of the model                                                     *)
(***************************************************************************)
MaxDepthOption   == 1      \* options.maxDepth ranges over 0..MaxDepthOption
MaxUrlsOption    == 2      \* options.maxUrls ranges over 0..MaxUrlsOption
MaxBatchOption   == 2      \* options.batchSize ranges over 0..MaxBatchOption
MaxTimeoutOption == 1      \* options.timeoutMs ranges over 0..MaxTimeoutOption clock steps
MaxGivenOptions  == 2      \* at most MaxGivenOptions options are given in a request
MaxTicks         == 2      \* the clock stops after MaxTicks steps
MaxPathLen       == 4      \* the paths of the link URLs normalised on their own: at most MaxPathLen characters
MaxRenders       == 2      \* at most MaxRenders rendered fetches are started by the other requests of the process
MaxFallbacks     == 1      \* at most MaxFallbacks scrapeWebPage calls of a crawl fall back to the rendered fetch
MaxCloses        == 2      \* at most MaxCloses closeBrowser calls are made
MaxPasses        == 2      \* the normalisation is applied at most MaxPasses times to a link

(***************************************************************************)
(* Timers of the program, in ms                                            *)
(***************************************************************************)
DefaultTimeout     == 25000   \* options.timeoutMs || 25000
PageTimeoutCurrent == 10000   \* setTimeout(..., 10000)
PageTimeoutLegacy  == 5000    \* setTimeout(..., 5000)

\* the clock advances in steps of the shortest timer
ClockStep == PageTimeoutLegacy
(***************************************************************************)
(* The inputs of the model: URL strings, anchor texts and web sites        *)
(***************************************************************************)
\* "https://example.com"
Home ==
  <<"h","t","t","p","s",":","/","/","e","x","a","m","p","l","e",".","c",
  "o","m">>

\* "https://example.com/"
UrlRoot ==
  <<"h","t","t","p","s",":","/","/","e","x","a","m","p","l","e",".","c",
  "o","m","/">>

\* "https://example.com/menu"
UrlMenu ==
  <<"h","t","t","p","s",":","/","/","e","x","a","m","p","l","e",".","c",
  "o","m","/","m","e","n","u">>

\* "https://example.com/about"
UrlAbout ==
  <<"h","t","t","p","s",":","/","/","e","x","a","m","p","l","e",".","c",
  "o","m","/","a","b","o","u","t">>

\* "https://example.com/vinos/"
UrlVinosSlash ==
  <<"h","t","t","p","s",":","/","/","e","x","a","m","p","l","e",".","c",
  "o","m","/","v","i","n","o","s","/">>

\* "https://example.com/vinos"
UrlVinos ==
  <<"h","t","t","p","s",":","/","/","e","x","a","m","p","l","e",".","c",
  "o","m","/","v","i","n","o","s">>

\* "https://example.com/menu/especial"
UrlEspecial ==
  <<"h","t","t","p","s",":","/","/","e","x","a","m","p","l","e",".","c",
  "o","m","/","m","e","n","u","/","e","s","p","e","c","i","a","l">>

\* "https://example.com/vinos/tinto"
UrlTinto ==
  <<"h","t","t","p","s",":","/","/","e","x","a","m","p","l","e",".","c",
  "o","m","/","v","i","n","o","s","/","t","i","n","t","o">>

\* "https://example.com/menu/especial/hoy"
UrlHoy ==
  <<"h","t","t","p","s",":","/","/","e","x","a","m","p","l","e",".","c",
  "o","m","/","m","e","n","u","/","e","s","p","e","c","i","a","l","/",
  "h","o","y">>

\* "https://example.com/tapas"
UrlTapas ==
  <<"h","t","t","p","s",":","/","/","e","x","a","m","p","l","e",".","c",
  "o","m","/","t","a","p","a","s">>

\* "https://example.com/tapas#top"
UrlTapasTop ==
  <<"h","t","t","p","s",":","/","/","e","x","a","m","p","l","e",".","c",
  "o","m","/","t","a","p","a","s","#","t","o","p">>

\* "https://example.com/bebidas?pagina=2"
UrlBebidas ==
  <<"h","t","t","p","s",":","/","/","e","x","a","m","p","l","e",".","c",
  "o","m","/","b","e","b","i","d","a","s","?","p","a","g","i","n","a",
  "=","2">>

\* "https://other.com/"
UrlOther ==
  <<"h","t","t","p","s",":","/","/","o","t","h","e","r",".","c","o","m",
  "/">>

\* "https://example.com/menu/pdf.pdf"
UrlPdf ==
  <<"h","t","t","p","s",":","/","/","e","x","a","m","p","l","e",".","c",
  "o","m","/","m","e","n","u","/","p","d","f",".","p","d","f">>

\* "mailto:info@example.com"
MailSeed ==
  <<"m","a","i","l","t","o",":","i","n","f","o","@","e","x","a","m","p",
  "l","e",".","c","o","m">>

\* "example.com/menu"
NoScheme ==
  <<"e","x","a","m","p","l","e",".","c","o","m","/","m","e","n","u">>

\* "Menu"
TxtMenu ==
  <<"M","e","n","u">>

\* "About us"
TxtAbout ==
  <<"A","b","o","u","t"," ","u","s">>

\* "Vinos"
TxtVinos ==
  <<"V","i","n","o","s">>

\* "Partner"
TxtPartner ==
  <<"P","a","r","t","n","e","r">>

\* "Especial"
TxtEspecial ==
  <<"E","s","p","e","c","i","a","l">>

\* "Tintos"
TxtTintos ==
  <<"T","i","n","t","o","s">>

\* "Hoy"
TxtHoy ==
  <<"H","o","y">>

\* "Tapas"
TxtTapas ==
  <<"T","a","p","a","s">>

\* "Bebidas"
TxtBebidas ==
  <<"B","e","b","i","d","a","s">>

\* "Inicio"
TxtHome ==
  <<"I","n","i","c","i","o">>

\* "PDF"
TxtPdf ==
  <<"P","D","F">>

Link(u, t) == [url |-> u, text |-> t]

\* a restaurant site with a carta section: /menu and /vinos both lead to
\* /menu/especial and /vinos/tinto
CartaSite ==
  <<[url |-> UrlRoot,
     links |-> <<Link(UrlMenu, TxtMenu), Link(UrlVinosSlash, TxtVinos),
                 Link(UrlOther, TxtPartner)>>],
    [url |-> UrlMenu,
     links |-> <<Link(UrlEspecial, TxtEspecial), Link(UrlTinto, TxtTintos)>>],
    [url |-> UrlVinos,
     links |-> <<Link(UrlTinto, TxtTintos), Link(UrlEspecial, TxtEspecial)>>],
    [url |-> UrlVinosSlash,
     links |-> <<Link(UrlTinto, TxtTintos), Link(UrlEspecial, TxtEspecial)>>],
    [url |-> UrlEspecial, links |-> <<Link(UrlHoy, TxtHoy)>>]>>

\* a site without carta paths, with a cycle, a fragment and a query string
TapasSite ==
  <<[url |-> UrlRoot,
     links |-> <<Link(UrlTapas, TxtTapas), Link(UrlAbout, TxtAbout)>>],
    [url |-> UrlTapas,
     links |-> <<Link(UrlRoot, TxtHome), Link(UrlTapasTop, TxtTapas),
                 Link(UrlBebidas, TxtBebidas)>>]>>

\* the site of the documented example: the root page links to /menu, /about
\* and /menu/pdf.pdf
ExampleSite ==
  <<[url |-> UrlRoot,
     links |-> <<Link(UrlMenu, TxtMenu), Link(UrlAbout, TxtAbout),
                 Link(UrlPdf, TxtPdf)>>]>>

\* a site with three links on its root page, two of them leading further
WideSite ==
  <<[url |-> UrlRoot,
     links |-> <<Link(UrlMenu, TxtMenu), Link(UrlVinos, TxtVinos),
                 Link(UrlEspecial, TxtEspecial)>>],
    [url |-> UrlMenu, links |-> <<Link(UrlHoy, TxtHoy)>>],
    [url |-> UrlHoy, links |-> <<Link(UrlTinto, TxtTintos)>>],
    [url |-> UrlEspecial, links |-> <<Link(UrlPdf, TxtPdf)>>]>>

\* a site whose root page has no carta link: the carta section is reached
\* through /vinos only
CellarSite ==
  <<[url |-> UrlRoot,
     links |-> <<Link(UrlVinos, TxtVinos), Link(UrlTapas, TxtTapas)>>],
    [url |-> UrlVinos, links |-> <<Link(UrlMenu, TxtMenu)>>],
    [url |-> UrlMenu, links |-> <<Link(UrlEspecial, TxtEspecial)>>]>>

\* a site entered at /vinos/, a page that links to itself
SlashSite ==
  <<[url |-> UrlVinosSlash,
     links |-> <<Link(UrlVinosSlash, TxtVinos), Link(UrlTinto, TxtTintos)>>],
    [url |-> UrlVinos,
     links |-> <<Link(UrlVinosSlash, TxtVinos), Link(UrlTinto, TxtTintos)>>]>>

Sites == <<CartaSite, TapasSite, ExampleSite, WideSite, CellarSite, SlashSite>>

\* the index of ExampleSite in Sites
ExampleSiteIndex == 3

\* the index of WideSite in Sites
WideSiteIndex == 4

\* the index of CellarSite in Sites
CellarSiteIndex == 5

\* the index of SlashSite in Sites
SlashSiteIndex == 6

\* a seed with a trailing slash: https://example.com/vinos/
SlashSeed == UrlVinosSlash

Seeds == {Home, NoScheme, MailSeed, SlashSeed}

ValidSeeds == {s \in Seeds : ParseURL(s).ok}

\* every link of every page of every site
AllLinks ==
  UNION {UNION {Range(Sites[s][k].links) : k \in 1..Len(Sites[s])} : s \in 1..Len(Sites)}

\* the links of the page a site serves at a URL (none for a URL it does not serve)
PageLinks(s, u) ==
  LET hits == {k \in 1..Len(Sites[s]) : Sites[s][k].url = u}
  IN  IF hits = {} THEN <<>> ELSE Sites[s][CHOOSE k \in hits : TRUE].links


\* the link URLs normalised on their own: a scheme, the host of the seed, a
\* path of slashes and letters, with or without a query string and a
\* fragment (either may be empty), and one string that is not a URL
LinkPaths ==
  {<<>>} \cup UNION {{<<"/">> \o p : p \in [1..n -> {"/", "a"}]} : n \in 0..(MaxPathLen - 1)}

LinkSchemes == {<<"h","t","t","p","s">>, <<"H","T","T","P">>}

LinkQueries == {<<>>, <<"?">>, <<"?","q","=","1">>}

LinkFragments == {<<>>, <<"#">>, <<"#","t","o","p">>}

LinkInputs ==
  {s \o <<":","/","/","e","x","a","m","p","l","e",".","c","o","m">> \o p \o q \o f :
     s \in LinkSchemes, p \in LinkPaths, q \in LinkQueries, f \in LinkFragments}
    \cup {NoScheme}
(***************************************************************************)
(* The requests of the model: revision, seed and options                   *)
(***************************************************************************)
Current == "part_005"
Legacy  == "web-scraping.ts"
Revisions == {Current, Legacy}

NoPatterns == [given |-> FALSE, patterns |-> <<>>]

\* an option is given when it differs from 0, FALSE, "undefined", no pattern list
GivenOptions(o) ==
  {k \in {"maxDepth", "maxUrls", "timeoutMs", "batchSize"} : o[k] # 0}
    \cup {k \in {"includeExternalLinks", "exactUrl"} : o[k]}
    \cup {k \in {"filterMode", "adaptiveSearch"} : o[k] # "undefined"}
    \cup {k \in {"customExcludePatterns", "customIncludePatterns"} : o[k].given}

AllOptions ==
  [maxDepth              : 0..MaxDepthOption,
   maxUrls               : 0..MaxUrlsOption,
   includeExternalLinks  : BOOLEAN,
   timeoutMs             : {n * ClockStep : n \in 0..MaxTimeoutOption},
   batchSize             : 0..MaxBatchOption,
   filterMode            : {"undefined", "none"},
   customExcludePatterns : {NoPatterns},
   customIncludePatterns : {NoPatterns},
   adaptiveSearch        : {"undefined", "false"},
   exactUrl              : BOOLEAN]

\* the options records with at most MaxGivenOptions options given
OptionSets == {o \in AllOptions : Cardinality(GivenOptions(o)) <= MaxGivenOptions}

\* the options the classification of a link depends on
FilterOptions(opts) ==
  [filterMode |-> opts.filterMode, exactUrl |-> opts.exactUrl,
   customExcludePatterns |-> opts.customExcludePatterns,
   customIncludePatterns |-> opts.customIncludePatterns]

\* new RegExp("menu", "i") and new RegExp("us", "i"): the custom patterns of the model
CustomExclude == [given |-> TRUE, patterns |-> <<[pre |-> <<>>, end |-> "any", alts |-> {<<"m","e","n","u">>}]>>]
CustomInclude == [given |-> TRUE, patterns |-> <<[pre |-> <<>>, end |-> "any", alts |-> {<<"u","s">>}]>>]

\* new RegExp("example", "i"): a custom exclude pattern that the seed URL matches
CustomExcludeSeed == [given |-> TRUE, patterns |-> <<[pre |-> <<>>, end |-> "any", alts |-> {<<"e","x","a","m","p","l","e">>}]>>]

\* the requests that set the filter and nothing else: every filter mode, with
\* and without custom exclude and include patterns
FilterRequests ==
  {[o EXCEPT !.filterMode = m, !.customExcludePatterns = e, !.customIncludePatterns = i] :
     o \in {r \in OptionSets : GivenOptions(r) = {}},
     m \in {"undefined", "none", "menu", "custom"},
     e \in {NoPatterns, CustomExclude, CustomExcludeSeed},
     i \in {NoPatterns, CustomInclude}}

FilterOptionSets == {FilterOptions(o) : o \in OptionSets \cup FilterRequests}

(***************************************************************************)
(* Inputs of one crawl and the state of listDomainUrls                     *)
(***************************************************************************)
VARIABLES
  revision,       \* which of the two revisions of the crawler runs
  domainUrl,      \* argument: the seed URL string
  options,        \* argument: the options record (0 / FALSE / "undefined" = not given)
  site,           \* the web site crawled: an index of Sites
  pc,             \* position of listDomainUrls: Init, Running, Closing, Done, Threw
  exitPath,       \* how the while loop was left
  foundUrls,      \* Set<string>, in insertion order
  externalUrls,   \* Set<string>, in insertion order
  urlQueue,       \* the frontier
  visitedUrls,    \* Set<string>
  priorityPaths,  \* Set<string>, in insertion order
  adaptiveMode,
  timedOut,
  elapsed,        \* Date.now() - startTime, in ms
  batch,          \* the items of the wave being processed
  tasks,          \* per item of batch: state of its async callback
  fetches,        \* every scrapeWebPage call of the crawl, in call order
  waveStart,      \* elapsed when the wave being processed started
  result,         \* the value listDomainUrls resolved to, or the error it threw
  normalized,     \* a link URL and its href after each normalisation pass applied to it
  browser,        \* the module variable browser: 0 (null) or an index of instances
  instances,      \* the browsers puppeteer.launch has produced: "open" or "closed"
  renders,        \* the rendered fetches of fetchPageContent: where each is, and its browserInstance
  closers         \* the closeBrowser calls: where each is, and the browser it closes

vars == <<revision, domainUrl, options, site, pc, exitPath, foundUrls,
          externalUrls, urlQueue, visitedUrls, priorityPaths, adaptiveMode,
          timedOut, elapsed, batch, tasks, fetches, waveStart, result,
          normalized, browser, instances, renders, closers>>

\* const maxDepth = options.maxDepth || 2
maxDepth == IF options.maxDepth = 0 THEN 2 ELSE options.maxDepth

\* const maxUrls = options.maxUrls || 50
maxUrls == IF options.maxUrls = 0 THEN 50 ELSE options.maxUrls

\* const includeExternalLinks = options.includeExternalLinks || false
includeExternalLinks == options.includeExternalLinks

\* const timeoutMs = options.timeoutMs || 25000
timeoutMs == IF options.timeoutMs = 0 THEN DefaultTimeout ELSE options.timeoutMs

\* const batchSize = options.batchSize || 5
batchSize == IF options.batchSize = 0 THEN 5 ELSE options.batchSize

\* const filterMode = options.filterMode || 'menu'
filterModeOf(opts) == IF opts.filterMode = "undefined" THEN "menu" ELSE opts.filterMode

filterMode == filterModeOf(options)

\* const adaptiveSearch = options.adaptiveSearch !== undefined ? options.adaptiveSearch : true
adaptiveSearch == IF options.adaptiveSearch = "undefined" THEN TRUE
                  ELSE options.adaptiveSearch = "true"

\* const exactUrl = options.exactUrl || false (the earlier revision has no such option)
exactUrlOf(rev, opts) == rev = Current /\ opts.exactUrl

\* options.customExcludePatterns ? custom.map(p => new RegExp(p, 'i')) : defaultExcludePatterns
excludePatternsOf(opts) ==
  IF opts.customExcludePatterns.given THEN opts.customExcludePatterns.patterns
  ELSE defaultExcludePatterns

\* options.customIncludePatterns ? custom.map(...) : (filterMode === 'menu' ? menuIncludePatterns : [])
includePatternsOf(rev, opts) ==
  IF opts.customIncludePatterns.given THEN opts.customIncludePatterns.patterns
  ELSE IF filterModeOf(opts) = "menu"
         THEN (IF rev = Current THEN menuIncludePatterns ELSE legacyMenuIncludePatterns)
         ELSE <<>>

\* new URL(s) tabulated over the seeds of the model
SeedUrl == [s \in Seeds |-> ParseURL(s)]

\* baseUrl = new URL(domainUrl)
baseUrl == SeedUrl[domainUrl]

\* const pathNoExt = baseUrl.pathname.replace(/\.[^/]+$/, ''); baseExact = baseUrl.origin + pathNoExt
baseExactOf(base) == origin(base) \o removeExtension(base.pathname)

(***************************************************************************)
(* LinkClassifier: the body of the loop over pageData.links                *)
(***************************************************************************)
\* Set.prototype.add on a set kept in insertion order
SetAdd(s, x) == IF x \in Range(s) THEN s ELSE Append(s, x)

\* linkUrl.hash = ''; linkUrl.search = ''; trailing slashes removed except for the root
normalize(u) ==
  LET v == [u EXCEPT !.hasHash = FALSE, !.hash = <<>>, !.hasQuery = FALSE, !.query = <<>>]
  IN  IF v.pathname # <<"/">> /\ endsWith(v.pathname, <<"/">>)
        THEN setPathname(v, stripTrailingSlashes(v.pathname))
        ELSE v

\* the URL object the loop works on: normalised in the current revision only
linkUrlOf(rev, parsed) ==
  IF rev = Current THEN normalize(parsed) ELSE parsed

\* const isInternal = exactUrl ? linkHref.startsWith(baseExact) : linkUrl.hostname === baseUrl.hostname
isInternal(linkUrl, base, exact) ==
  IF exact THEN startsWith(toString(linkUrl), baseExactOf(base))
  ELSE linkUrl.hostname = base.hostname

\* passesFilter without the exclude patterns
passesFilterNoExclude(linkUrl, text, mode, include, exclude) ==
  LET urlString == toString(linkUrl)
      urlPath   == toLowerCase(linkUrl.pathname)
      linkText  == toLowerCase(text)
      shouldInclude == \E k \in 1..Len(include) :
                         \/ RegExpTest(include[k], urlString)
                         \/ RegExpTest(include[k], urlPath)
                         \/ RegExpTest(include[k], linkText)
  IN  \/ mode = "none"
      \/ Len(include) > 0 => shouldInclude

\* passesFilter letting a matching include pattern override the exclude patterns
passesFilterIncludeWins(linkUrl, text, mode, include, exclude) ==
  LET urlString == toString(linkUrl)
      urlPath   == toLowerCase(linkUrl.pathname)
      linkText  == toLowerCase(text)
      shouldExclude == \E k \in 1..Len(exclude) :
                         \/ RegExpTest(exclude[k], urlString)
                         \/ RegExpTest(exclude[k], urlPath)
      shouldInclude == \E k \in 1..Len(include) :
                         \/ RegExpTest(include[k], urlString)
                         \/ RegExpTest(include[k], urlPath)
                         \/ RegExpTest(include[k], linkText)
  IN  \/ mode = "none"
      \/ shouldInclude
      \/ ~shouldExclude /\ Len(include) = 0

\* the filter applied to an internal link while crawling (exclude first, then include)
passesFilter(linkUrl, text, mode, include, exclude) ==
  LET urlString == toString(linkUrl)
      urlPath   == toLowerCase(linkUrl.pathname)
      linkText  == toLowerCase(text)
      shouldExclude == \E k \in 1..Len(exclude) :
                         \/ RegExpTest(exclude[k], urlString)
                         \/ RegExpTest(exclude[k], urlPath)
      shouldInclude == \E k \in 1..Len(include) :
                         \/ RegExpTest(include[k], urlString)
                         \/ RegExpTest(include[k], urlPath)
                         \/ RegExpTest(include[k], linkText)
  IN  \/ mode = "none"
      \/ /\ ~shouldExclude
         /\ (Len(include) > 0 => shouldInclude)

\* priority-path detection on a link: the prefixes it promotes (none or one)
detectPriorityPath(linkUrl) ==
  LET urlPath      == toLowerCase(linkUrl.pathname)
      isCartaPath  == SomeTest(cartaPathPatterns, urlPath)
      pathSegments == splitSegments(urlPath)
  IN  IF isCartaPath /\ Len(pathSegments) > 0 THEN <<<<"/">> \o pathSegments[1]>> ELSE <<>>

\* what the loop body computes from one link alone: its verdicts on a link
\* for a revision, a seed and the options
classifyLink(rev, seed, opts, link) ==
  The({IF ~parsed.ok THEN [valid |-> FALSE]
       ELSE The({[valid     |-> TRUE,
                  linkHref  |-> toString(linkUrl),
                  internal  |-> isInternal(linkUrl, ParseURL(seed), exactUrlOf(rev, opts)),
                  passes    |-> passesFilter(linkUrl, link.text, filterModeOf(opts),
                                             includePatternsOf(rev, opts),
                                             excludePatternsOf(opts)),
                  priority  |-> detectPriorityPath(linkUrl),
                  isCartaPathBranch |-> SomeTest(cartaPathPatterns, linkUrl.pathname)] :
                 linkUrl \in {linkUrlOf(rev, parsed)}}) :
       parsed \in {ParseURL(link.url)}})

\* classifyLink tabulated over the inputs of the model
LinkClass ==
  [rev \in Revisions, seed \in ValidSeeds, opts \in FilterOptionSets, link \in AllLinks |->
     classifyLink(rev, seed, opts, link)]

\* processLink with the test "!foundUrls.has(linkHref)" left out: every passing
\* internal link is enqueued, found or not
processLinkNoDedup(st, link, depth, noDepthLimit) ==
  The({
      IF ~c.valid THEN st
      ELSE IF c.internal THEN
        IF ~c.passes THEN st
        ELSE
          LET priority2 == IF adaptiveSearch /\ depth = 0 /\ c.priority # <<>>
                             THEN SetAdd(st.priority, c.priority[1])
                             ELSE st.priority
              nextNoDepthLimit == noDepthLimit \/ c.isCartaPathBranch
          IN  [st EXCEPT
                 !.priority = priority2,
                 !.found = SetAdd(st.found, c.linkHref),
                 !.queue = IF nextNoDepthLimit \/ depth + 1 < maxDepth
                             THEN Append(st.queue,
                                    [url |-> c.linkHref, depth |-> depth + 1,
                                     noDepthLimit |-> nextNoDepthLimit])
                             ELSE st.queue]
      ELSE IF includeExternalLinks
        THEN [st EXCEPT !.external = SetAdd(st.external, c.linkHref)]
        ELSE st :
      c \in {LinkClass[revision, domainUrl, FilterOptions(options), link]}})

\* processLink enqueuing the link as written in the page (link.url) while
\* foundUrls receives the normalised linkHref
processLinkRawEnqueue(st, link, depth, noDepthLimit) ==
  The({
      IF ~c.valid THEN st
      ELSE IF c.internal THEN
        IF ~c.passes THEN st
        ELSE
          LET priority2 == IF adaptiveSearch /\ depth = 0 /\ c.priority # <<>>
                             THEN SetAdd(st.priority, c.priority[1])
                             ELSE st.priority
              nextNoDepthLimit == noDepthLimit \/ c.isCartaPathBranch
          IN  IF c.linkHref \in Range(st.found)
                THEN [st EXCEPT !.priority = priority2]
                ELSE [st EXCEPT
                        !.priority = priority2,
                        !.found = Append(st.found, c.linkHref),
                        !.queue = IF nextNoDepthLimit \/ depth + 1 < maxDepth
                                    THEN Append(st.queue,
                                           [url |-> link.url, depth |-> depth + 1,
                                            noDepthLimit |-> nextNoDepthLimit])
                                    ELSE st.queue]
      ELSE IF includeExternalLinks
        THEN [st EXCEPT !.external = SetAdd(st.external, c.linkHref)]
        ELSE st :
      c \in {LinkClass[revision, domainUrl, FilterOptions(options), link]}})

\* processLink without the detection of priority paths
processLinkNoPriority(st, link, depth, noDepthLimit) ==
  The({
      IF ~c.valid THEN st
      ELSE IF c.internal THEN
        IF ~c.passes THEN st
        ELSE
          LET priority2 == st.priority
              nextNoDepthLimit == noDepthLimit \/ c.isCartaPathBranch
          IN  IF c.linkHref \in Range(st.found)
                THEN [st EXCEPT !.priority = priority2]
                ELSE [st EXCEPT
                        !.priority = priority2,
                        !.found = Append(st.found, c.linkHref),
                        !.queue = IF nextNoDepthLimit \/ depth + 1 < maxDepth
                                    THEN Append(st.queue,
                                           [url |-> c.linkHref, depth |-> depth + 1,
                                            noDepthLimit |-> nextNoDepthLimit])
                                    ELSE st.queue]
      ELSE IF includeExternalLinks
        THEN [st EXCEPT !.external = SetAdd(st.external, c.linkHref)]
        ELSE st :
      c \in {LinkClass[revision, domainUrl, FilterOptions(options), link]}})

\* processLink enqueuing every new link, whatever its depth
processLinkEnqueueAll(st, link, depth, noDepthLimit) ==
  The({
      IF ~c.valid THEN st
      ELSE IF c.internal THEN
        IF ~c.passes THEN st
        ELSE
          LET priority2 == IF adaptiveSearch /\ depth = 0 /\ c.priority # <<>>
                             THEN SetAdd(st.priority, c.priority[1])
                             ELSE st.priority
              nextNoDepthLimit == noDepthLimit \/ c.isCartaPathBranch
          IN  IF c.linkHref \in Range(st.found)
                THEN [st EXCEPT !.priority = priority2]
                ELSE [st EXCEPT
                        !.priority = priority2,
                        !.found = Append(st.found, c.linkHref),
                        !.queue = Append(st.queue,
                                         [url |-> c.linkHref, depth |-> depth + 1,
                                          noDepthLimit |-> nextNoDepthLimit])]
      ELSE IF includeExternalLinks
        THEN [st EXCEPT !.external = SetAdd(st.external, c.linkHref)]
        ELSE st :
      c \in {LinkClass[revision, domainUrl, FilterOptions(options), link]}})

\* processLink recording external links whether or not includeExternalLinks is set
processLinkKeepExternal(st, link, depth, noDepthLimit) ==
  The({
      IF ~c.valid THEN st
      ELSE IF c.internal THEN
        IF ~c.passes THEN st
        ELSE
          LET priority2 == IF adaptiveSearch /\ depth = 0 /\ c.priority # <<>>
                             THEN SetAdd(st.priority, c.priority[1])
                             ELSE st.priority
              nextNoDepthLimit == noDepthLimit \/ c.isCartaPathBranch
          IN  IF c.linkHref \in Range(st.found)
                THEN [st EXCEPT !.priority = priority2]
                ELSE [st EXCEPT
                        !.priority = priority2,
                        !.found = Append(st.found, c.linkHref),
                        !.queue = IF nextNoDepthLimit \/ depth + 1 < maxDepth
                                    THEN Append(st.queue,
                                           [url |-> c.linkHref, depth |-> depth + 1,
                                            noDepthLimit |-> nextNoDepthLimit])
                                    ELSE st.queue]
      ELSE [st EXCEPT !.external = SetAdd(st.external, c.linkHref)] :
      c \in {LinkClass[revision, domainUrl, FilterOptions(options), link]}})

\* processLink without the test "depth === 0" on the priority paths: a carta
\* link of any page adds its first segment
processLinkPriorityAnyDepth(st, link, depth, noDepthLimit) ==
  The({
      IF ~c.valid THEN st
      ELSE IF c.internal THEN
        IF ~c.passes THEN st
        ELSE
          LET priority2 == IF adaptiveSearch /\ c.priority # <<>>
                             THEN SetAdd(st.priority, c.priority[1])
                             ELSE st.priority
              nextNoDepthLimit == noDepthLimit \/ c.isCartaPathBranch
          IN  IF c.linkHref \in Range(st.found)
                THEN [st EXCEPT !.priority = priority2]
                ELSE [st EXCEPT
                        !.priority = priority2,
                        !.found = Append(st.found, c.linkHref),
                        !.queue = IF nextNoDepthLimit \/ depth + 1 < maxDepth
                                    THEN Append(st.queue,
                                           [url |-> c.linkHref, depth |-> depth + 1,
                                            noDepthLimit |-> nextNoDepthLimit])
                                    ELSE st.queue]
      ELSE IF includeExternalLinks
        THEN [st EXCEPT !.external = SetAdd(st.external, c.linkHref)]
        ELSE st :
      c \in {LinkClass[revision, domainUrl, FilterOptions(options), link]}})

\* processLink exempting a carta branch from maxDepth only with adaptiveSearch
processLinkExemptIfAdaptive(st, link, depth, noDepthLimit) ==
  The({
      IF ~c.valid THEN st
      ELSE IF c.internal THEN
        IF ~c.passes THEN st
        ELSE
          LET priority2 == IF adaptiveSearch /\ depth = 0 /\ c.priority # <<>>
                             THEN SetAdd(st.priority, c.priority[1])
                             ELSE st.priority
              nextNoDepthLimit == noDepthLimit \/ (adaptiveSearch /\ c.isCartaPathBranch)
          IN  IF c.linkHref \in Range(st.found)
                THEN [st EXCEPT !.priority = priority2]
                ELSE [st EXCEPT
                        !.priority = priority2,
                        !.found = Append(st.found, c.linkHref),
                        !.queue = IF nextNoDepthLimit \/ depth + 1 < maxDepth
                                    THEN Append(st.queue,
                                           [url |-> c.linkHref, depth |-> depth + 1,
                                            noDepthLimit |-> nextNoDepthLimit])
                                    ELSE st.queue]
      ELSE IF includeExternalLinks
        THEN [st EXCEPT !.external = SetAdd(st.external, c.linkHref)]
        ELSE st :
      c \in {LinkClass[revision, domainUrl, FilterOptions(options), link]}})

\* one iteration of "for (const link of pageData.links)" on the crawl state
\* st = [found, external, priority, queue] for a page at the given depth
processLink(st, link, depth, noDepthLimit) ==
  The({
      IF ~c.valid THEN st
      ELSE IF c.internal THEN
        IF ~c.passes THEN st
        ELSE
          LET priority2 == IF adaptiveSearch /\ depth = 0 /\ c.priority # <<>>
                             THEN SetAdd(st.priority, c.priority[1])
                             ELSE st.priority
              nextNoDepthLimit == noDepthLimit \/ c.isCartaPathBranch
          IN  IF c.linkHref \in Range(st.found)
                THEN [st EXCEPT !.priority = priority2]
                ELSE [st EXCEPT
                        !.priority = priority2,
                        !.found = Append(st.found, c.linkHref),
                        !.queue = IF nextNoDepthLimit \/ depth + 1 < maxDepth
                                    THEN Append(st.queue,
                                           [url |-> c.linkHref, depth |-> depth + 1,
                                            noDepthLimit |-> nextNoDepthLimit])
                                    ELSE st.queue]
      ELSE IF includeExternalLinks
        THEN [st EXCEPT !.external = SetAdd(st.external, c.linkHref)]
        ELSE st :
      c \in {LinkClass[revision, domainUrl, FilterOptions(options), link]}})

\* the whole loop over pageData.links
RECURSIVE processLinks(_, _, _, _)
processLinks(st, links, depth, noDepthLimit) ==
  IF links = <<>> THEN st
  ELSE The({processLinks(next, Tail(links), depth, noDepthLimit) :
              next \in {processLink(st, Head(links), depth, noDepthLimit)}})

\* every URL string a crawl of the model can hold: the seeds, the links as
\* written in the pages and their linkHref
AllHrefs ==
  {toString(ParseURL(s)) : s \in ValidSeeds}
    \cup UNION {{l.url} \cup {toString(linkUrlOf(rev, parsed)) : rev \in Revisions} :
                  <<l, parsed>> \in {m \in {<<k, ParseURL(k.url)>> : k \in AllLinks} : m[2].ok}}

\* new URL(url).pathname tabulated over these strings
Pathname == [u \in AllHrefs |-> ParseURL(u).pathname]

\* the UTF-16 code unit of a character
charCode(c) == 31 + CHOOSE i \in 1..Len(AsciiTable) : AsciiTable[i] = c

\* a < b on strings: lexicographic by code unit
RECURSIVE strLess(_, _)
strLess(a, b) ==
  IF b = <<>> THEN FALSE
  ELSE IF a = <<>> THEN TRUE
  ELSE IF a[1] = b[1] THEN strLess(Tail(a), Tail(b))
  ELSE charCode(a[1]) < charCode(b[1])

\* aPath[0] || '': the first non-empty path segment of a URL string
firstSegment(str) ==
  LET segs == splitSegments(ParseURL(str).pathname)
  IN  IF Len(segs) > 0 THEN segs[1] ELSE <<>>

\* the comparator of filteredUrls.sort: negative, zero or positive
compareUrls(a, b) ==
  LET aSub == firstSegment(a)
      bSub == firstSegment(b)
  IN  IF strLess(aSub, bSub) THEN -1
      ELSE IF strLess(bSub, aSub) THEN 1
      ELSE IF strLess(a, b) THEN -1
      ELSE IF strLess(b, a) THEN 1
      ELSE 0

\* compareUrls tabulated over the URL strings of the model
UrlOrder == [a \in AllHrefs, b \in AllHrefs |-> compareUrls(a, b)]

\* insertion of x into a sorted sequence, after the elements not greater than it
RECURSIVE insertSorted(_, _)
insertSorted(s, x) ==
  IF s = <<>> THEN <<x>>
  ELSE IF UrlOrder[x, Head(s)] < 0 THEN <<x>> \o s
  ELSE <<Head(s)>> \o insertSorted(Tail(s), x)

\* no sort: the sequence as it is
sortUrlsNone(s) == s

\* Array.prototype.sort with compareUrls (a stable sort)
RECURSIVE sortUrls(_)
sortUrls(s) ==
  IF s = <<>> THEN <<>>
  ELSE The({insertSorted(sorted, s[Len(s)]) :
              sorted \in {sortUrls(SubSeq(s, 1, Len(s) - 1))}})

\* keepInResult testing the built-in include patterns whatever the filter mode
keepInResultIgnoringMode(rev, opts, url) == SomeTest(menuIncludePatterns, url)

\* keepInResult testing the exclude patterns again on the URL string
keepInResultReapplyExclude(rev, opts, url) ==
  filterModeOf(opts) # "none" =>
    /\ ~SomeTest(excludePatternsOf(opts), url)
    /\ Len(includePatternsOf(rev, opts)) > 0 => SomeTest(includePatternsOf(rev, opts), url)

\* the predicate of filteredUrls.filter(...): with a filter mode, the include
\* patterns (when there are any) are tested again, on the URL string alone
keepInResult(rev, opts, url) ==
  filterModeOf(opts) # "none" =>
    (Len(includePatternsOf(rev, opts)) > 0 => SomeTest(includePatternsOf(rev, opts), url))

\* keepInResult tabulated over the inputs of the model
ResultFilter ==
  [rev \in Revisions, opts \in FilterOptionSets, url \in AllHrefs |->
     keepInResult(rev, opts, url)]

\* Array.prototype.filter with that predicate
filterUrls(urls) ==
  LET keep(u) == ResultFilter[revision, FilterOptions(options), u]
  IN  SelectSeq(urls, keep)

\* the filtered and sorted list of the result
filteredUrlsOf(found) == The({sortUrls(kept) : kept \in {filterUrls(found)}})

\* the object listDomainUrls returns
resultOf(found, priority, external, tOut) ==
  [domain       |-> baseUrl.hostname,
   urlsFound    |-> Len(found),
   urls         |-> found,
   filteredUrls |-> filteredUrlsOf(found),
   priorityPaths |-> priority,
   externalUrls |-> IF includeExternalLinks THEN external ELSE <<>>,
   timedOut     |-> tOut]

(***************************************************************************)
(* CrawlScheduler: listDomainUrls                                          *)
(***************************************************************************)
NoResult == [kind |-> "none"]

\* the crawl state before listDomainUrls is called
NotStarted ==
  /\ pc = "Init"
  /\ exitPath = "None"
  /\ foundUrls = <<>>
  /\ externalUrls = <<>>
  /\ urlQueue = <<>>
  /\ visitedUrls = {}
  /\ priorityPaths = <<>>
  /\ adaptiveMode = FALSE
  /\ timedOut = FALSE
  /\ elapsed = 0
  /\ batch = <<>>
  /\ tasks = <<>>
  /\ fetches = <<>>
  /\ waveStart = 0
  /\ result = NoResult
  /\ normalized = <<>>
  /\ browser = 0
  /\ instances = <<>>
  /\ renders = <<>>
  /\ closers = <<>>

Init ==
  /\ revision \in {Current, Legacy}
  /\ domainUrl \in Seeds \ {MailSeed, SlashSeed}
  /\ options \in OptionSets
  /\ revision = Legacy => ~options.exactUrl   \* the earlier revision has no exactUrl option
  /\ site \in 1..Len(Sites) \ {ExampleSiteIndex, WideSiteIndex, CellarSiteIndex, SlashSiteIndex}
  /\ NotStarted

\* Array.from(priorityPaths).some(p => currentPath.startsWith(p))
isInPriorityPath(url, priority) ==
  LET currentPath == Pathname[url]
  IN  \E k \in 1..Len(priority) : startsWith(currentPath, priority[k])

\* targetUrl.startsWith("mailto:") || targetUrl.startsWith("tel:")
isNonHttp(url) ==
  \/ startsWith(url, <<"m","a","i","l","t","o",":">>)
  \/ startsWith(url, <<"t","e","l",":">>)

\* the record of one scrapeWebPage call: its URL, its status, which is
\* "plain" while fetch(targetUrl) or res.text() is pending, "render" while the
\* rendered fetch is pending, and then how the call ended, and res, which is
\* "ok" once fetch has answered with a success status.  The call ended: "page" (it returned a
\* snapshot of the page), "empty" (it returned a snapshot of '' for a
\* mailto:/tel: URL or a 404), "unreachable" (it returned a snapshot of ''
\* after both fetches failed) or "error" (it threw)
\* NewFetch starting the plain fetch whatever the URL
NewFetchAlwaysPlain(item, nonHttp) == [url |-> item.url, status |-> "plain", res |-> "none"]

NewFetch(item, nonHttp) ==
  [url |-> item.url, status |-> IF nonHttp THEN "empty" ELSE "plain", res |-> "none"]

\* startItem without the adaptive pruning branch
startItemNoPrune(acc, item, mode, priority) ==
  IF item.url \in acc.visited \/ (~item.noDepthLimit /\ item.depth >= maxDepth)
    THEN [acc EXCEPT !.tasks = Append(@, [cb |-> "skipped", fetch |-> 0])]
  ELSE IF revision = Current /\ isNonHttp(item.url)
    THEN [visited |-> acc.visited \cup {item.url},
          fetches |-> Append(acc.fetches, NewFetch(item, TRUE)),
          tasks   |-> Append(acc.tasks,
                        [cb |-> "processed", fetch |-> Len(acc.fetches) + 1])]
  ELSE [visited |-> acc.visited \cup {item.url},
        fetches |-> Append(acc.fetches, NewFetch(item, FALSE)),
        tasks   |-> Append(acc.tasks,
                      [cb |-> "awaiting", fetch |-> Len(acc.fetches) + 1])]

\* startItem with the pruning test placed before visitedUrls.add(url): a
\* pruned item is not marked as visited
startItemPruneUnvisited(acc, item, mode, priority) ==
  IF item.url \in acc.visited \/ (~item.noDepthLimit /\ item.depth >= maxDepth)
    THEN [acc EXCEPT !.tasks = Append(@, [cb |-> "skipped", fetch |-> 0])]
  ELSE IF /\ adaptiveSearch /\ mode /\ Len(priority) > 0
          /\ ~isInPriorityPath(item.url, priority) /\ item.depth > 0
    THEN [acc EXCEPT !.tasks = Append(@, [cb |-> "pruned", fetch |-> 0])]
  ELSE IF revision = Current /\ isNonHttp(item.url)
    THEN [visited |-> acc.visited \cup {item.url},
          fetches |-> Append(acc.fetches, NewFetch(item, TRUE)),
          tasks   |-> Append(acc.tasks,
                        [cb |-> "processed", fetch |-> Len(acc.fetches) + 1])]
  ELSE [visited |-> acc.visited \cup {item.url},
        fetches |-> Append(acc.fetches, NewFetch(item, FALSE)),
        tasks   |-> Append(acc.tasks,
                      [cb |-> "awaiting", fetch |-> Len(acc.fetches) + 1])]

\* the synchronous part of one callback of batch.map: up to its first await.
\* acc = [visited, fetches, tasks]; mode and priority are adaptiveMode and
\* priorityPaths, which no callback changes before its await
startItem(acc, item, mode, priority) ==
  IF item.url \in acc.visited \/ (~item.noDepthLimit /\ item.depth >= maxDepth)
    THEN [acc EXCEPT !.tasks = Append(@, [cb |-> "skipped", fetch |-> 0])]
  ELSE IF /\ adaptiveSearch /\ mode /\ Len(priority) > 0
          /\ ~isInPriorityPath(item.url, priority) /\ item.depth > 0
    THEN [acc EXCEPT !.visited = @ \cup {item.url},
                     !.tasks = Append(@, [cb |-> "pruned", fetch |-> 0])]
  ELSE IF revision = Current /\ isNonHttp(item.url)
    THEN [visited |-> acc.visited \cup {item.url},
          fetches |-> Append(acc.fetches, NewFetch(item, TRUE)),
          tasks   |-> Append(acc.tasks,
                        [cb |-> "processed", fetch |-> Len(acc.fetches) + 1])]
  ELSE [visited |-> acc.visited \cup {item.url},
        fetches |-> Append(acc.fetches, NewFetch(item, FALSE)),
        tasks   |-> Append(acc.tasks,
                      [cb |-> "awaiting", fetch |-> Len(acc.fetches) + 1])]

\* batch.map(async ...) runs the callbacks in order, each up to its first await
RECURSIVE startBatch(_, _, _, _)
startBatch(acc, items, mode, priority) ==
  IF items = <<>> THEN acc
  ELSE The({startBatch(next, Tail(items), mode, priority) :
              next \in {startItem(acc, Head(items), mode, priority)}})

Min(a, b) == IF a < b THEN a ELSE b

\* the variables of the browser
browserVars == <<browser, instances, renders, closers>>

\* the variables of the crawl, which the steps of the browser leave alone
crawlVars == <<revision, domainUrl, options, site, pc, exitPath, foundUrls,
               externalUrls, urlQueue, visitedUrls, priorityPaths, adaptiveMode,
               timedOut, elapsed, batch, tasks, fetches, waveStart, result,
               normalized>>

\* closeBrowser() up to its await: "if (browser)" is evaluated; with a browser,
\* browser.close() is called, which stops the browser, and awaited
closeBrowserCalled ==
  IF browser = 0
    THEN /\ closers' = Append(closers, [at |-> "return", instance |-> 0])
         /\ UNCHANGED instances
    ELSE /\ closers' = Append(closers, [at |-> "close", instance |-> browser])
         /\ instances' = [instances EXCEPT ![browser] = "closed"]

\* LeaveLoop computing timedOut from the clock at the exit, whatever the exit
LeaveLoopLateTimedOut(path, found, tOut) ==
  /\ exitPath' = path
  /\ timedOut' = (elapsed' > timeoutMs)
  /\ IF revision = Current
       THEN /\ pc' = "Closing" /\ result' = result
            /\ closeBrowserCalled
            /\ UNCHANGED <<browser, renders>>
       ELSE /\ pc' = "Done"
            /\ result' = [kind |-> "value",
                          value |-> resultOf(found, priorityPaths', externalUrls',
                                             elapsed' > timeoutMs)]
            /\ UNCHANGED browserVars

\* leaving the while loop: the result is computed; the current revision then
\* calls closeBrowser() and awaits it, the earlier one returns at once
LeaveLoop(path, found, tOut) ==
  /\ exitPath' = path
  /\ timedOut' = tOut
  /\ IF revision = Current
       THEN /\ pc' = "Closing" /\ result' = result
            /\ closeBrowserCalled
            /\ UNCHANGED <<browser, renders>>
       ELSE /\ pc' = "Done"
            /\ result' = [kind |-> "value",
                          value |-> resultOf(found, priorityPaths', externalUrls', tOut)]
            /\ UNCHANGED browserVars

\* loopExit with the deadline measured from the start of the last wave (a
\* window that every wave slides forward) instead of the start of the crawl
loopExitSliding(found, queue) ==
  IF Len(queue) = 0 THEN [path |-> "FrontierExhausted", timedOut |-> timedOut]
  ELSE IF ~(Len(found) < maxUrls) THEN [path |-> "CapReached", timedOut |-> timedOut]
  ELSE IF elapsed - waveStart > timeoutMs THEN [path |-> "DeadlineExceeded", timedOut |-> TRUE]
  ELSE [path |-> "None", timedOut |-> timedOut]

\* the while condition "urlQueue.length > 0 && foundUrls.size < maxUrls &&
\* !timedOut" followed by the deadline check of the body ("timedOut = true;
\* break"): the exit taken, "None" when the body goes on, and timedOut
loopExit(found, queue) ==
  IF Len(queue) = 0 THEN [path |-> "FrontierExhausted", timedOut |-> timedOut]
  ELSE IF ~(Len(found) < maxUrls) THEN [path |-> "CapReached", timedOut |-> timedOut]
  ELSE IF elapsed > timeoutMs THEN [path |-> "DeadlineExceeded", timedOut |-> TRUE]
  ELSE [path |-> "None", timedOut |-> timedOut]

\* LoopTop starting every wave with an empty set of visited URLs
LoopTopForgetVisited(exit, found, queue, visited, mode) ==
  IF exit.path # "None" THEN
    /\ LeaveLoop(exit.path, found, exit.timedOut)
    /\ urlQueue' = queue /\ visitedUrls' = visited
    /\ UNCHANGED <<batch, tasks, fetches, waveStart>>
  ELSE
    \E n \in {Min(batchSize, Len(queue))} :
      \E started \in {startBatch([visited |-> {}, fetches |-> fetches,
                                  tasks |-> <<>>],
                                 SubSeq(queue, 1, n), mode, priorityPaths')} :
        /\ batch' = SubSeq(queue, 1, n)
        /\ waveStart' = elapsed'
        /\ urlQueue' = SubSeq(queue, n + 1, Len(queue))
        /\ visitedUrls' = started.visited
        /\ fetches' = started.fetches
        /\ tasks' = started.tasks
        /\ pc' = "Running"
        /\ UNCHANGED <<exitPath, timedOut, result>>
        /\ UNCHANGED browserVars

\* the top of the loop with the outcome of its tests: either the loop is
\* left, or the body runs up to "await Promise.all" (dequeue of a batch, start
\* of its callbacks)
LoopTop(exit, found, queue, visited, mode) ==
  IF exit.path # "None" THEN
    /\ LeaveLoop(exit.path, found, exit.timedOut)
    /\ urlQueue' = queue /\ visitedUrls' = visited
    /\ UNCHANGED <<batch, tasks, fetches, waveStart>>
  ELSE
    \E n \in {Min(batchSize, Len(queue))} :
      \E started \in {startBatch([visited |-> visited, fetches |-> fetches,
                                  tasks |-> <<>>],
                                 SubSeq(queue, 1, n), mode, priorityPaths')} :
        /\ batch' = SubSeq(queue, 1, n)
        /\ waveStart' = elapsed'
        /\ urlQueue' = SubSeq(queue, n + 1, Len(queue))
        /\ visitedUrls' = started.visited
        /\ fetches' = started.fetches
        /\ tasks' = started.tasks
        /\ pc' = "Running"
        /\ UNCHANGED <<exitPath, timedOut, result>>
        /\ UNCHANGED browserVars

\* Call creating the crawl state before it validates the seed
CallValidateLate ==
  /\ pc = "Init"
  /\ IF ~baseUrl.ok
       THEN /\ pc' = "Threw"
            /\ result' = [kind |-> "error", error |-> "InvalidInput"]
            /\ foundUrls' = <<domainUrl>>
            /\ urlQueue' = <<[url |-> domainUrl, depth |-> 0, noDepthLimit |-> FALSE]>>
            /\ UNCHANGED <<browser, instances, renders, closers, normalized, revision, domainUrl, options, site, exitPath,
                           externalUrls, visitedUrls, priorityPaths,
                           adaptiveMode, timedOut, elapsed, batch, tasks, fetches,
                           waveStart>>
       ELSE /\ externalUrls' = <<>>
            /\ priorityPaths' = <<>>
            /\ adaptiveMode' = FALSE
            /\ elapsed' = 0
            /\ \E href \in {toString(baseUrl)} :
                 \E queue \in {<<[url |-> href, depth |-> 0, noDepthLimit |-> FALSE]>>} :
                   /\ foundUrls' = <<href>>
                   /\ LoopTop(loopExit(<<href>>, queue), <<href>>, queue, {}, FALSE)
            /\ UNCHANGED <<normalized, revision, domainUrl, options, site>>

\* the call listDomainUrls(domainUrl, options), up to its first await
Call ==
  /\ pc = "Init"
  /\ IF ~baseUrl.ok
       THEN /\ pc' = "Threw"
            /\ result' = [kind |-> "error", error |-> "InvalidInput"]
            /\ UNCHANGED <<browser, instances, renders, closers, normalized, revision, domainUrl, options, site, exitPath, foundUrls,
                           externalUrls, urlQueue, visitedUrls, priorityPaths,
                           adaptiveMode, timedOut, elapsed, batch, tasks, fetches, waveStart>>
       ELSE /\ externalUrls' = <<>>
            /\ priorityPaths' = <<>>
            /\ adaptiveMode' = FALSE
            /\ elapsed' = 0
            /\ \E href \in {toString(baseUrl)} :
                 \E queue \in {<<[url |-> href, depth |-> 0, noDepthLimit |-> FALSE]>>} :
                   /\ foundUrls' = <<href>>
                   /\ LoopTop(loopExit(<<href>>, queue), <<href>>, queue, {}, FALSE)
            /\ UNCHANGED <<normalized, revision, domainUrl, options, site>>

Awaiting(i) == tasks[i].cb = "awaiting"

\* Join without the test "foundUrls.size >= maxUrls" after the wave: only the
\* while condition is evaluated
JoinNoCapCheck ==
  /\ pc = "Running"
  /\ \A i \in 1..Len(tasks) : ~Awaiting(i)
  /\ LET allProcessedInDepthZero == \A i \in 1..Len(batch) : batch[i].depth > 0
         mode == IF adaptiveSearch /\ ~adaptiveMode
                    /\ allProcessedInDepthZero /\ Len(priorityPaths) > 0
                   THEN TRUE ELSE adaptiveMode
     IN  /\ adaptiveMode' = mode
         /\ UNCHANGED <<foundUrls, externalUrls, priorityPaths, elapsed>>
         /\ LoopTop(loopExit(foundUrls, urlQueue),
                    foundUrls, urlQueue, visitedUrls, mode)
  /\ UNCHANGED <<normalized, revision, domainUrl, options, site>>

\* Join turning the adaptive mode on whatever the depths of the wave
JoinAdaptiveAnyDepth ==
  /\ pc = "Running"
  /\ \A i \in 1..Len(tasks) : ~Awaiting(i)
  /\ LET mode == IF adaptiveSearch /\ ~adaptiveMode
                    /\ Len(priorityPaths) > 0
                   THEN TRUE ELSE adaptiveMode
     IN  /\ adaptiveMode' = mode
         /\ UNCHANGED <<foundUrls, externalUrls, priorityPaths, elapsed>>
         /\ LoopTop(IF Len(foundUrls) >= maxUrls
                      THEN [path |-> "CapReached", timedOut |-> timedOut]
                      ELSE loopExit(foundUrls, urlQueue),
                    foundUrls, urlQueue, visitedUrls, mode)
  /\ UNCHANGED <<normalized, revision, domainUrl, options, site>>

\* the continuation of "await Promise.all": adaptive-mode latch, cap check,
\* and the next evaluation of the while condition
Join ==
  /\ pc = "Running"
  /\ \A i \in 1..Len(tasks) : ~Awaiting(i)
  /\ LET allProcessedInDepthZero == \A i \in 1..Len(batch) : batch[i].depth > 0
         mode == IF adaptiveSearch /\ ~adaptiveMode
                    /\ allProcessedInDepthZero /\ Len(priorityPaths) > 0
                   THEN TRUE ELSE adaptiveMode
     IN  /\ adaptiveMode' = mode
         /\ UNCHANGED <<foundUrls, externalUrls, priorityPaths, elapsed>>
         /\ LoopTop(IF Len(foundUrls) >= maxUrls
                      THEN [path |-> "CapReached", timedOut |-> timedOut]
                      ELSE loopExit(foundUrls, urlQueue),
                    foundUrls, urlQueue, visitedUrls, mode)
  /\ UNCHANGED <<normalized, revision, domainUrl, options, site>>

\* the index in batch of the callback awaiting scrapeWebPage call k, or 0
WaiterOf(k) ==
  IF pc = "Running" /\ \E i \in 1..Len(tasks) : tasks[i].fetch = k /\ Awaiting(i)
    THEN CHOOSE i \in 1..Len(tasks) : tasks[i].fetch = k /\ Awaiting(i)
    ELSE 0

\* Resolve handing the links to the callback of call k whether or not it
\* still awaits the race
ResolveAfterTimeout(k, returned, links) ==
  LET i == IF pc = "Running" /\ \E j \in 1..Len(tasks) : tasks[j].fetch = k
             THEN CHOOSE j \in 1..Len(tasks) : tasks[j].fetch = k
             ELSE 0
  IN  /\ fetches' = [fetches EXCEPT ![k].status = returned]
      /\ IF i = 0
           THEN UNCHANGED <<foundUrls, externalUrls, priorityPaths, urlQueue, tasks>>
           ELSE \E st \in {processLinks([found |-> foundUrls, external |-> externalUrls,
                                          priority |-> priorityPaths, queue |-> urlQueue],
                                         links, batch[i].depth, batch[i].noDepthLimit)} :
                  /\ foundUrls' = st.found
                  /\ externalUrls' = st.external
                  /\ priorityPaths' = st.priority
                  /\ urlQueue' = st.queue
                  /\ tasks' = [tasks EXCEPT ![i].cb = "processed"]
      /\ UNCHANGED <<normalized, revision, domainUrl, options, site, pc, exitPath, visitedUrls,
                     adaptiveMode, timedOut, elapsed, batch, result, waveStart>>

\* scrapeWebPage call k resolves with a snapshot carrying these links: when
\* its callback is still awaiting the race, the callback processes the links
Resolve(k, returned, links) ==
  LET i == WaiterOf(k)
  IN  /\ fetches' = [fetches EXCEPT ![k].status = returned]
      /\ IF i = 0
           THEN UNCHANGED <<foundUrls, externalUrls, priorityPaths, urlQueue, tasks>>
           ELSE \E st \in {processLinks([found |-> foundUrls, external |-> externalUrls,
                                          priority |-> priorityPaths, queue |-> urlQueue],
                                         links, batch[i].depth, batch[i].noDepthLimit)} :
                  /\ foundUrls' = st.found
                  /\ externalUrls' = st.external
                  /\ priorityPaths' = st.priority
                  /\ urlQueue' = st.queue
                  /\ tasks' = [tasks EXCEPT ![i].cb = "processed"]
      /\ UNCHANGED <<normalized, revision, domainUrl, options, site, pc, exitPath, visitedUrls,
                     adaptiveMode, timedOut, elapsed, batch, result, waveStart>>

\* Reject without the catch around the race: the rejection reaches
\* Promise.all and listDomainUrls throws
RejectAborts(k) ==
  LET i == WaiterOf(k)
  IN  /\ fetches' = [fetches EXCEPT ![k].status = "error"]
      /\ IF i = 0
           THEN UNCHANGED <<tasks, pc, result>>
           ELSE /\ tasks' = [tasks EXCEPT ![i].cb = "failed"]
                /\ pc' = "Threw"
                /\ result' = [kind |-> "error", error |-> "FetchFailure"]
      /\ UNCHANGED <<normalized, revision, domainUrl, options, site, exitPath, foundUrls,
                     externalUrls, urlQueue, visitedUrls, priorityPaths, adaptiveMode,
                     timedOut, elapsed, batch, waveStart>>

\* scrapeWebPage call k rejects ("Error scraping web page"): the race rejects
\* and the callback returns from its catch
Reject(k) ==
  LET i == WaiterOf(k)
  IN  /\ fetches' = [fetches EXCEPT ![k].status = "error"]
      /\ tasks' = IF i = 0 THEN tasks ELSE [tasks EXCEPT ![i].cb = "failed"]
      /\ UNCHANGED <<normalized, revision, domainUrl, options, site, pc, exitPath, foundUrls,
                     externalUrls, urlQueue, visitedUrls, priorityPaths, adaptiveMode,
                     timedOut, elapsed, batch, result, waveStart>>

\* the rendered fetch that scrapeWebPage call k starts (0: a call of another
\* request of the process).  part_005, getBrowser(): "if (!browser)" is
\* evaluated; with no browser puppeteer.launch is awaited, else the shared
\* browser is returned and newPage() is called on it.  web-scraping.ts:
\* puppeteer.launch is awaited whatever the other calls do
NewRender(k) ==
  IF revision = Current /\ browser # 0
    THEN [at |-> "newPage", instance |-> browser, page |-> "none", fetch |-> k]
    ELSE [at |-> "launch", instance |-> 0, page |-> "none", fetch |-> k]

\* the catch of fetchPageContent: the rendered fetch of call k starts.  At
\* most MaxFallbacks pages of a crawl fail to answer the plain fetch
Fallback(k) ==
  /\ Len(renders) < MaxFallbacks
  /\ fetches' = [fetches EXCEPT ![k].status = "render"]
  /\ renders' = Append(renders, NewRender(k))
  /\ UNCHANGED <<browser, instances, closers>>
  /\ UNCHANGED <<normalized, revision, domainUrl, options, site, pc, exitPath, foundUrls,
                 externalUrls, urlQueue, visitedUrls, priorityPaths, adaptiveMode,
                 timedOut, elapsed, batch, tasks, result, waveStart>>

\* fetch(targetUrl) answers with a success status: res.text() is awaited
PlainOk(k) ==
  /\ fetches[k].status = "plain"
  /\ fetches[k].res = "none"
  /\ fetches' = [fetches EXCEPT ![k].res = "ok"]
  /\ UNCHANGED browserVars
  /\ UNCHANGED <<normalized, revision, domainUrl, options, site, pc, exitPath, foundUrls,
                 externalUrls, urlQueue, visitedUrls, priorityPaths, adaptiveMode,
                 timedOut, elapsed, batch, tasks, result, waveStart>>

\* fetch(targetUrl) answers 404: the current revision returns '' without
\* fallback, the earlier one treats it as any other failure
Plain404(k) ==
  /\ fetches[k].status = "plain"
  /\ fetches[k].res = "none"
  /\ IF revision = Current
       THEN Resolve(k, "empty", <<>>) /\ UNCHANGED browserVars
       ELSE Fallback(k)

\* fetch(targetUrl) fails (network error, abort, other non-success status)
PlainFail(k) ==
  /\ fetches[k].status = "plain"
  /\ fetches[k].res = "none"
  /\ Fallback(k)

\* res.text() resolves: the body is the page
PlainText(k) ==
  /\ fetches[k].status = "plain"
  /\ fetches[k].res = "ok"
  /\ Resolve(k, "page", PageLinks(site, fetches[k].url))
  /\ UNCHANGED browserVars

\* res.text() rejects (the connection is lost, the abort signal fires): the
\* catch of fetchPageContent runs as for a failure of fetch
PlainTextFail(k) ==
  /\ fetches[k].status = "plain"
  /\ fetches[k].res = "ok"
  /\ Fallback(k)

\* the rendered fetch r returns the page content to its scrapeWebPage call
RenderOk(r) ==
  \E k \in {renders[r].fetch} :
    IF k = 0 THEN UNCHANGED crawlVars
    ELSE Resolve(k, "page", PageLinks(site, fetches[k].url))

\* RenderFail letting the failure of the rendered fetch escape in both revisions
RenderFailThrows(r) ==
  \E k \in {renders[r].fetch} :
    IF k = 0 THEN UNCHANGED crawlVars ELSE Reject(k)

\* the rendered fetch r fails: catch (puppeteerErr) returns '' in the current
\* revision, the earlier one has no catch and scrapeWebPage throws
RenderFail(r) ==
  \E k \in {renders[r].fetch} :
    IF k = 0 THEN UNCHANGED crawlVars
    ELSE IF revision = Current THEN Resolve(k, "unreachable", <<>>) ELSE Reject(k)

\* puppeteer.launch resolves.  part_005: browser = <the new instance>; return
\* browser, and newPage() is called on it.  web-scraping.ts: the instance is
\* the call's own
launchResolves(r) ==
  /\ renders[r].at = "launch"
  /\ instances' = Append(instances, "open")
  /\ browser' = IF revision = Current THEN Len(instances) + 1 ELSE browser
  /\ renders' = [renders EXCEPT ![r] = [@ EXCEPT !.at = "newPage",
                                                  !.instance = Len(instances) + 1]]
  /\ UNCHANGED closers
  /\ UNCHANGED crawlVars

\* puppeteer.launch rejects: browser stays null and the rendered fetch fails
launchFails(r) ==
  /\ renders[r].at = "launch"
  /\ renders' = [renders EXCEPT ![r].at = "puppeteerErr"]
  /\ UNCHANGED <<browser, instances, closers>>
  /\ RenderFail(r)

\* await browserInstance.newPage(): opens a page and page.goto is called, or
\* rejects on a closed browser and the rendered fetch fails
newPage(r) ==
  /\ renders[r].at = "newPage"
  /\ UNCHANGED <<browser, instances, closers>>
  /\ IF instances[renders[r].instance] = "open"
       THEN /\ renders' = [renders EXCEPT ![r] = [@ EXCEPT !.at = "goto", !.page = "open"]]
            /\ UNCHANGED crawlVars
       ELSE /\ renders' = [renders EXCEPT ![r].at = "puppeteerErr"]
            /\ RenderFail(r)

\* await page.goto(targetUrl) resolves on an open browser: page.content() is called
pageGoto(r) ==
  /\ renders[r].at = "goto"
  /\ instances[renders[r].instance] = "open"
  /\ renders' = [renders EXCEPT ![r].at = "content"]
  /\ UNCHANGED <<browser, instances, closers>>
  /\ UNCHANGED crawlVars

\* await page.content() resolves on an open browser.  part_005: page.close()
\* is called.  web-scraping.ts: browser.close() is called on the call's own
\* browser, which stops it and its page
pageContent(r) ==
  /\ renders[r].at = "content"
  /\ instances[renders[r].instance] = "open"
  /\ IF revision = Current
       THEN /\ renders' = [renders EXCEPT ![r].at = "close"]
            /\ UNCHANGED instances
       ELSE /\ renders' = [renders EXCEPT ![r] = [@ EXCEPT !.at = "close", !.page = "closed"]]
            /\ instances' = [instances EXCEPT ![renders[r].instance] = "closed"]
  /\ UNCHANGED <<browser, closers>>
  /\ UNCHANGED crawlVars

\* await page.close() (await browser.close() in web-scraping.ts) resolves, also
\* when closeBrowser() was called after it: return content
pageClose(r) ==
  /\ renders[r].at = "close"
  /\ renders' = [renders EXCEPT ![r] = [@ EXCEPT !.at = "returned", !.page = "closed"]]
  /\ UNCHANGED <<browser, instances, closers>>
  /\ RenderOk(r)

\* browserInstance.newPage(), page.goto, page.content or page.close rejects
\* (the browser crashed or was closed, navigation error): the rendered fetch
\* fails, and in part_005 page.close() is not reached or has failed
puppeteerErr(r) ==
  /\ renders[r].at \in {"newPage", "goto", "content", "close"}
  /\ renders' = [renders EXCEPT ![r].at = "puppeteerErr"]
  /\ UNCHANGED <<browser, instances, closers>>
  /\ RenderFail(r)

\* the per-page timer: setTimeout(() => reject(...), 10000), 5000 in the earlier revision
perPageTimeout == IF revision = Current THEN PageTimeoutCurrent ELSE PageTimeoutLegacy

\* the timer of callback i fires before its scrapeWebPage call settles: the
\* race rejects and the callback returns; the call itself goes on
PageTimeout(i) ==
  /\ pc = "Running"
  /\ Awaiting(i)
  /\ elapsed >= waveStart + perPageTimeout
  /\ tasks' = [tasks EXCEPT ![i].cb = "timedout"]
  /\ UNCHANGED <<browser, instances, renders, closers, normalized, revision, domainUrl, options, site, pc, exitPath, foundUrls,
                 externalUrls, urlQueue, visitedUrls, priorityPaths, adaptiveMode,
                 timedOut, elapsed, batch, fetches, result, waveStart>>

\* time passes while the crawl is suspended on its wave
Tick ==
  /\ pc = "Running"
  /\ \E i \in 1..Len(tasks) : Awaiting(i)
  /\ elapsed < MaxTicks * ClockStep
  /\ elapsed' = elapsed + ClockStep
  /\ UNCHANGED <<browser, instances, renders, closers, normalized, revision, domainUrl, options, site, pc, exitPath, foundUrls,
                 externalUrls, urlQueue, visitedUrls, priorityPaths, adaptiveMode,
                 timedOut, batch, tasks, fetches, result, waveStart>>

\* browser.close() resolves in closeBrowser call c: browser = null
closeBrowserResolved(c) ==
  IF closers[c].at = "close"
    THEN /\ browser' = 0
         /\ closers' = [closers EXCEPT ![c].at = "return"]
    ELSE UNCHANGED <<browser, closers>>

\* browser.close() rejects in closeBrowser call c: closeBrowser has no catch
\* and throws, "browser = null" is not reached
closeBrowserRejected(c) ==
  /\ closers[c].at = "close"
  /\ closers' = [closers EXCEPT ![c].at = "threw"]
  /\ UNCHANGED browser

\* "await closeBrowser()" throws: it stands outside any try, listDomainUrls
\* rejects with the error of browser.close() and returns no result
closeBrowserThrows ==
  /\ pc = "Closing"
  /\ pc' = "Threw"
  /\ closeBrowserRejected(Len(closers))
  /\ result' = [kind |-> "error", error |-> "CloseFailure"]
  /\ UNCHANGED <<instances, renders, normalized, revision, domainUrl, options, site, exitPath, foundUrls,
                 externalUrls, urlQueue, visitedUrls, priorityPaths, adaptiveMode,
                 timedOut, elapsed, batch, tasks, fetches, waveStart>>

\* closeBrowser() has completed: listDomainUrls returns its result
Return ==
  /\ pc = "Closing"
  /\ pc' = "Done"
  /\ closeBrowserResolved(Len(closers))
  /\ result' = [kind |-> "value",
                value |-> resultOf(foundUrls, priorityPaths, externalUrls, timedOut)]
  /\ UNCHANGED <<instances, renders, normalized, revision, domainUrl, options, site, exitPath, foundUrls,
                 externalUrls, urlQueue, visitedUrls, priorityPaths, adaptiveMode,
                 timedOut, elapsed, batch, tasks, fetches, waveStart>>

Next ==
  \/ Call
  \/ Join
  \/ \E k \in 1..Len(fetches) : PlainOk(k)
  \/ \E k \in 1..Len(fetches) : Plain404(k)
  \/ \E k \in 1..Len(fetches) : PlainFail(k)
  \/ \E k \in 1..Len(fetches) : PlainText(k)
  \/ \E k \in 1..Len(fetches) : PlainTextFail(k)
  \/ \E r \in 1..Len(renders) : launchResolves(r)
  \/ \E r \in 1..Len(renders) : launchFails(r)
  \/ \E r \in 1..Len(renders) : newPage(r)
  \/ \E r \in 1..Len(renders) : pageGoto(r)
  \/ \E r \in 1..Len(renders) : pageContent(r)
  \/ \E r \in 1..Len(renders) : pageClose(r)
  \/ \E r \in 1..Len(renders) : puppeteerErr(r)
  \/ \E i \in 1..Len(tasks) : PageTimeout(i)
  \/ Tick
  \/ Return
  \/ closeBrowserThrows

Spec == Init /\ [][Next]_vars

\* the documented example: the seed https://example.com, whose page links to
\* /menu, /about and /menu/pdf.pdf, crawled with the built-in patterns of the
\* menu filter
ExampleInit ==
  /\ revision \in {Current, Legacy}
  /\ domainUrl = Home
  /\ options \in {o \in OptionSets : /\ o.filterMode \in {"undefined", "menu"}
                                      /\ ~o.customExcludePatterns.given
                                      /\ ~o.customIncludePatterns.given}
  /\ revision = Legacy => ~options.exactUrl
  /\ site = ExampleSiteIndex
  /\ NotStarted

ExampleSpec == ExampleInit /\ [][Next]_vars

\* the example site crawled under every filter configuration
FilterInit ==
  /\ revision \in {Current, Legacy}
  /\ domainUrl = Home
  /\ options \in FilterRequests
  /\ site = ExampleSiteIndex
  /\ NotStarted

FilterSpec == FilterInit /\ [][Next]_vars

\* the carta site crawled from its root, and a crawl whose seed is a mailto:
\* URL, with the options left out
FetchInit ==
  /\ revision \in {Current, Legacy}
  /\ domainUrl \in {Home, MailSeed}
  /\ options \in {o \in OptionSets : GivenOptions(o) = {}}
  /\ site = 1
  /\ NotStarted

FetchSpec == FetchInit /\ [][Next]_vars

\* the wide site crawled from its root in waves of two
WideInit ==
  /\ revision \in {Current, Legacy}
  /\ domainUrl = Home
  /\ options \in {o \in OptionSets : o.batchSize = 2}
  /\ revision = Legacy => ~options.exactUrl
  /\ site = WideSiteIndex
  /\ NotStarted

WideSpec == WideInit /\ [][Next]_vars

\* the carta site and the cellar site crawled from their root with at most
\* one option given
CellarInit ==
  /\ revision \in {Current, Legacy}
  /\ domainUrl = Home
  /\ options \in {o \in OptionSets : Cardinality(GivenOptions(o)) <= 1}
  /\ revision = Legacy => ~options.exactUrl
  /\ site \in {1, CellarSiteIndex}
  /\ NotStarted

CellarSpec == CellarInit /\ [][Next]_vars

\* the crawl of the slash site from https://example.com/vinos/, with at most
\* one option given
SlashInit ==
  /\ revision \in {Current, Legacy}
  /\ domainUrl = SlashSeed
  /\ options \in {o \in OptionSets : Cardinality(GivenOptions(o)) <= 1}
  /\ revision = Legacy => ~options.exactUrl
  /\ site = SlashSiteIndex
  /\ NotStarted

SlashSpec == SlashInit /\ [][Next]_vars

(***************************************************************************)
(* The normalisation of a link, applied on its own                         *)
(***************************************************************************)
\* const linkUrl = new URL(link.url); ...; const linkHref = linkUrl.toString()
normalizeHref(str) == toString(normalize(ParseURL(str)))

\* a link URL, before the loop body has normalised it
NormalizeInit ==
  /\ normalized \in {<<str>> : str \in LinkInputs}
  /\ revision = Current
  /\ domainUrl = Home
  /\ options \in {o \in OptionSets : GivenOptions(o) = {}}
  /\ site = ExampleSiteIndex
  /\ pc = "Init"
  /\ exitPath = "None"
  /\ foundUrls = <<>>
  /\ externalUrls = <<>>
  /\ urlQueue = <<>>
  /\ visitedUrls = {}
  /\ priorityPaths = <<>>
  /\ adaptiveMode = FALSE
  /\ timedOut = FALSE
  /\ elapsed = 0
  /\ batch = <<>>
  /\ tasks = <<>>
  /\ fetches = <<>>
  /\ waveStart = 0
  /\ result = NoResult
  /\ browser = 0
  /\ instances = <<>>
  /\ renders = <<>>
  /\ closers = <<>>

\* one pass of the normalisation over the href the last pass produced
NormalizePass ==
  /\ Len(normalized) <= MaxPasses
  /\ ParseURL(normalized[Len(normalized)]).ok
  /\ normalized' = Append(normalized, normalizeHref(normalized[Len(normalized)]))
  /\ UNCHANGED <<revision, domainUrl, options, site, pc, exitPath, foundUrls,
                 externalUrls, urlQueue, visitedUrls, priorityPaths, adaptiveMode,
                 timedOut, elapsed, batch, tasks, fetches, waveStart, result,
                 browser, instances, renders, closers>>

NormalizeSpec == NormalizeInit /\ [][NormalizePass]_vars


(***************************************************************************)
(* The shared browser: getBrowser, closeBrowser and the rendered fetches   *)
(* of fetchPageContent, taken on their own.  The rendered fetches are the  *)
(* catch branches of the scrapeWebPage calls in progress in the process,   *)
(* the closeBrowser calls are the ends of listDomainUrls and               *)
(* scrapeMultiplePages; a crawl reaches its closeBrowser with calls of its *)
(* own still in progress when their callbacks lost the per-page race.      *)
(***************************************************************************)
BrowserInit ==
  /\ revision = Current
  /\ domainUrl = Home
  /\ options \in {o \in OptionSets : GivenOptions(o) = {}}
  /\ site = ExampleSiteIndex
  /\ NotStarted

\* catch (fetchErr) { ... await getBrowser() of a scrapeWebPage call of the
\* process
getBrowser ==
  /\ Len(renders) < MaxRenders
  /\ renders' = Append(renders, NewRender(0))
  /\ UNCHANGED <<browser, instances, closers>>
  /\ UNCHANGED crawlVars

\* closeBrowser() is called at the end of a request of the process
closeBrowser ==
  /\ Len(closers) < MaxCloses
  /\ closeBrowserCalled
  /\ UNCHANGED <<browser, renders>>
  /\ UNCHANGED crawlVars

\* browser.close() resolves: browser = null, and closeBrowser returns
closeResolves(c) ==
  /\ closers[c].at = "close"
  /\ closeBrowserResolved(c)
  /\ UNCHANGED <<instances, renders>>
  /\ UNCHANGED crawlVars

\* browser.close() rejects: closeBrowser throws and browser keeps the instance
closeRejects(c) ==
  /\ closeBrowserRejected(c)
  /\ UNCHANGED <<instances, renders>>
  /\ UNCHANGED crawlVars

BrowserNext ==
  \/ getBrowser
  \/ \E r \in 1..Len(renders) : launchResolves(r)
  \/ \E r \in 1..Len(renders) : launchFails(r)
  \/ \E r \in 1..Len(renders) : newPage(r)
  \/ \E r \in 1..Len(renders) : pageGoto(r)
  \/ \E r \in 1..Len(renders) : pageContent(r)
  \/ \E r \in 1..Len(renders) : pageClose(r)
  \/ \E r \in 1..Len(renders) : puppeteerErr(r)
  \/ closeBrowser
  \/ \E c \in 1..Len(closers) : closeResolves(c)
  \/ \E c \in 1..Len(closers) : closeRejects(c)

BrowserSpec == BrowserInit /\ [][BrowserNext]_vars
(***************************************************************************)
(* Fairness: the continuations of listDomainUrls run once they are         *)
(* enabled, and every awaited scrapeWebPage call settles or loses its race *)
(* against the per-page timer                                              *)
(***************************************************************************)
Settle ==
  \/ \E k \in 1..Len(fetches) :
       PlainOk(k) \/ Plain404(k) \/ PlainFail(k) \/ PlainText(k) \/ PlainTextFail(k)
  \/ \E r \in 1..Len(renders) :
       \/ launchResolves(r) \/ launchFails(r) \/ newPage(r) \/ pageGoto(r)
       \/ pageContent(r) \/ pageClose(r) \/ puppeteerErr(r)
  \/ \E i \in 1..Len(tasks) : PageTimeout(i)

\* a step of the crawl, as opposed to the mere passing of time
Progress == Call \/ Join \/ Return \/ closeBrowserThrows \/ Settle

FairSpec == Spec /\ WF_vars(Progress)

(***************************************************************************)
(* Properties                                                              *)
(***************************************************************************)
NoRepeat(s) == \A i, j \in 1..Len(s) : s[i] = s[j] => i = j

FetchedUrls == [k \in 1..Len(fetches) |-> fetches[k].url]

QueueUrls == [i \in 1..Len(urlQueue) |-> urlQueue[i].url]

ExitPaths == {"DeadlineExceeded", "CapReached", "FrontierExhausted"}

\* scrapeWebPage call k has not settled yet
Pending(k) == fetches[k].status \in {"plain", "render"}

\* no callback of the wave in progress awaits scrapeWebPage call k
Abandoned(k) ==
  ~(pc = "Running" /\ \E i \in 1..Len(tasks) : tasks[i].fetch = k /\ tasks[i].cb = "awaiting")

\* the page at pageUrl carries a link whose linkHref is u
LinksTo(pageUrl, u) ==
  \E n \in 1..Len(PageLinks(site, pageUrl)) :
    LET c == LinkClass[revision, domainUrl, FilterOptions(options),
                       PageLinks(site, pageUrl)[n]]
    IN  c.valid /\ c.linkHref = u

\* this step is the failure of the rendered fetch of call k, after the failure
\* of its plain fetch
BothFailed(k) ==
  fetches[k].status = "render" /\ fetches'[k].status \notin {"render", "page"}

\* C1, as stated: in every reachable state the number of discovered URLs is
\* at most maxUrls (found.size <= maxUrls).
C1_FoundWithinCap == Len(foundUrls) <= maxUrls

\* C2: no URL is fetched more than once per crawl. Stated with what makes it
\* hold from one wave to the next: the scrapeWebPage calls of the crawl have
\* pairwise different URLs, every fetched URL is in visitedUrls, and the
\* frontier holds each URL at most once and none that is already visited.
C2_NoDoubleFetch ==
  /\ NoRepeat(FetchedUrls)
  /\ \A k \in 1..Len(fetches) : fetches[k].url \in visitedUrls
  /\ NoRepeat(QueueUrls)
  /\ \A i \in 1..Len(urlQueue) : urlQueue[i].url \notin visitedUrls

\* two pages of the wave in progress have both been processed, both link to
\* the same URL, and that URL is in the frontier
C2_SharedLinkInOneWave ==
  /\ pc = "Running"
  /\ \E i, j \in 1..Len(tasks) :
       /\ i # j
       /\ tasks[i].cb = "processed" /\ tasks[j].cb = "processed"
       /\ \E q \in 1..Len(urlQueue) :
            /\ LinksTo(batch[i].url, urlQueue[q].url)
            /\ LinksTo(batch[j].url, urlQueue[q].url)

\* C3: visitedUrls is a subset of foundUrls in every reachable state, and a
\* URL is in foundUrls from the moment it enters the frontier, hence when its
\* fetch starts.
C3_VisitedWithinFound ==
  /\ visitedUrls \subseteq Range(foundUrls)
  /\ \A i \in 1..Len(urlQueue) : urlQueue[i].url \in Range(foundUrls)
  /\ \A i \in 1..Len(batch) : batch[i].url \in Range(foundUrls)
  /\ \A k \in 1..Len(fetches) : fetches[k].url \in Range(foundUrls)

\* pages other than the seed have been fetched and a URL has been pruned
C3_SeveralVisited ==
  /\ Len(fetches) >= 2
  /\ Cardinality(visitedUrls) > Len(fetches)

\* C4: a crawl started with a parsable seed reaches Done, it leaves the loop
\* through exactly one of DeadlineExceeded, CapReached and FrontierExhausted,
\* and once Done nothing is dequeued any more.
C4_Terminates ==
  /\ (pc = "Init" /\ baseUrl.ok) ~> (pc = "Done")
  /\ [](pc \in {"Closing", "Done"} <=> exitPath \in ExitPaths)
  /\ [](exitPath \in ExitPaths \cup {"None"})
  /\ [][pc = "Done" => /\ pc' = "Done"
                       /\ UNCHANGED <<urlQueue, batch, tasks, visitedUrls,
                                      exitPath, result>>]_vars

\* the closing closeBrowser() of the crawl threw: browser.close() rejected
CloseThrew ==
  /\ pc = "Threw"
  /\ closers # <<>>
  /\ closers[Len(closers)].at = "threw"

\* what the code ensures: the crawl leaves the loop through exactly one exit
\* path and then ends, Done with its result or, when browser.close() rejects
\* in closeBrowser(), rejected without one; nothing is dequeued after the loop
C4_TerminatesOrCloseThrows ==
  /\ (pc = "Init" /\ baseUrl.ok) ~> (pc = "Done" \/ CloseThrew)
  /\ [](exitPath \in ExitPaths <=> (pc \in {"Closing", "Done"} \/ CloseThrew))
  /\ [](exitPath \in ExitPaths \cup {"None"})
  /\ [][(exitPath \in ExitPaths)
          => UNCHANGED <<urlQueue, batch, tasks, visitedUrls, exitPath>>]_vars

\* a crawl of several waves left the loop with its frontier exhausted and
\* was rejected by its closing closeBrowser()
C4_ThrewAfterWaves ==
  /\ CloseThrew
  /\ exitPath = "FrontierExhausted"
  /\ Len(fetches) >= 3

\* C5: result.timedOut is true exactly when the loop was left on the
\* DeadlineExceeded path, which is taken only with the elapsed time above
\* timeoutMs.
C5_TimedOutIffDeadline ==
  /\ timedOut <=> exitPath = "DeadlineExceeded"
  /\ exitPath = "DeadlineExceeded" => elapsed > timeoutMs
  /\ pc = "Done" => /\ result.kind = "value"
                    /\ result.value.timedOut <=> exitPath = "DeadlineExceeded"

\* a crawl has returned with timedOut set
C5_ReturnedTimedOut ==
  /\ pc = "Done"
  /\ result.value.timedOut

\* C6: the step in which a callback loses its race to the per-page timer
\* changes nothing of found, external, priorityPaths, the frontier, timedOut
\* or the other callbacks of the wave, and a scrapeWebPage call that settles
\* with no callback awaiting it contributes nothing either.
C6_TimeoutContributesNothing ==
  [][/\ \A i \in 1..Len(tasks) :
          (tasks[i].cb = "awaiting" /\ tasks'[i].cb = "timedout")
            => /\ UNCHANGED <<foundUrls, externalUrls, priorityPaths, urlQueue,
                              timedOut, pc, result>>
               /\ \A j \in 1..Len(tasks) : j # i => tasks'[j] = tasks[j]
     /\ \A k \in 1..Len(fetches) :
          (Abandoned(k) /\ fetches'[k] # fetches[k])
            => UNCHANGED <<foundUrls, externalUrls, priorityPaths, urlQueue,
                           tasks, timedOut, pc>>
    ]_vars

\* a call abandoned in an earlier wave is still pending while a page of the
\* wave in progress has been processed, and timedOut is false
C6_CrawlGoesOnAfterTimeout ==
  /\ pc = "Running"
  /\ ~timedOut
  /\ \E k \in 1..Len(fetches) :
       /\ Pending(k)
       /\ \A i \in 1..Len(tasks) : tasks[i].fetch # k
  /\ \E j \in 1..Len(tasks) : tasks[j].cb = "processed"

\* C7: the step in which the rendered fetch of a page fails, after its plain
\* fetch failed, adds nothing to found, external, priorityPaths or the
\* frontier, leaves listDomainUrls where it is (no error propagates), and its
\* callback is over, so that the wave can complete.
C7_FetchFailureDoesNotAbort ==
  [][\A k \in 1..Len(fetches) :
       BothFailed(k)
         => /\ UNCHANGED <<foundUrls, externalUrls, priorityPaths, urlQueue,
                           pc, result, exitPath>>
            /\ \A i \in 1..Len(tasks) :
                 tasks[i].fetch = k => tasks'[i].cb # "awaiting"
    ]_vars

\* a page could be fetched neither way, a page requested after it was
\* fetched, and the crawl returned a result
C7_CrawlReturnsAfterFailure ==
  /\ pc = "Done"
  /\ result.kind = "value"
  /\ \E k, n \in 1..Len(fetches) :
       /\ k < n
       /\ fetches[k].status \in {"unreachable", "error"}
       /\ fetches[n].status = "page"

\* C8, as stated: whenever the plain fetch and the rendered fetch of a URL
\* both fail, scrapeWebPage fails with an error.
C8_BothFailThrows ==
  [][\A k \in 1..Len(fetches) : BothFailed(k) => fetches'[k].status = "error"]_vars

\* C8, amended: when both fetches fail, scrapeWebPage of src/web-scraping.ts
\* fails with an error, and scrapeWebPage of part_005 returns the snapshot of
\* an empty page.
C8_BothFailByRevision ==
  [][\A k \in 1..Len(fetches) :
       BothFailed(k)
         => fetches'[k].status = IF revision = Legacy THEN "error" ELSE "unreachable"
    ]_vars

\* scrapeWebPage of part_005 has returned after both fetches failed
C8_ReturnedAfterBothFailed ==
  /\ revision = Current
  /\ \E k \in 1..Len(fetches) : fetches[k].status = "unreachable"

\* C9: with a seed that does not parse, listDomainUrls does nothing but throw
\* InvalidInput: no scrapeWebPage call (the only I/O of the crawl, the
\* browser included), no crawl state and no result.
C9_InvalidSeedFailsFast ==
  ~baseUrl.ok =>
    /\ pc \in {"Init", "Threw"}
    /\ result = IF pc = "Threw" THEN [kind |-> "error", error |-> "InvalidInput"]
                ELSE NoResult
    /\ fetches = <<>> /\ tasks = <<>> /\ batch = <<>>
    /\ foundUrls = <<>> /\ externalUrls = <<>> /\ priorityPaths = <<>>
    /\ urlQueue = <<>> /\ visitedUrls = {}

\* listDomainUrls has thrown on the seed without scheme
C9_ThrewOnInvalidSeed ==
  /\ domainUrl = NoScheme
  /\ pc = "Threw"

\* C10: in adaptive mode no item of depth > 0 outside the priority paths has
\* its page requested (so it contributes no links), and the depth-0 item
\* would be processed with adaptive mode on as well.
C10_AdaptivePruning ==
  /\ (pc = "Running" /\ adaptiveMode) =>
       \A i \in 1..Len(batch) :
         (batch[i].depth > 0 /\ ~isInPriorityPath(batch[i].url, priorityPaths))
           => tasks[i].fetch = 0 /\ tasks[i].cb \in {"skipped", "pruned"}
  /\ foundUrls # <<>> =>
       LET seedItem == [url |-> foundUrls[1], depth |-> 0, noDepthLimit |-> FALSE]
           started  == startItem([visited |-> {}, fetches |-> <<>>, tasks |-> <<>>],
                                 seedItem, TRUE, priorityPaths)
       IN  started.tasks[1].cb \in {"awaiting", "processed"}

\* in adaptive mode one item of the wave has been pruned and the page of
\* another, under a priority path, has been requested
C10_PrunedInAdaptiveMode ==
  /\ pc = "Running"
  /\ adaptiveMode
  /\ \E i, j \in 1..Len(tasks) :
       /\ tasks[i].cb = "pruned"
       /\ batch[j].depth > 0 /\ tasks[j].fetch # 0


\* the seed page was fetched and its callback has processed its links: the
\* first wave is at its end
FirstWaveProcessed ==
  /\ pc = "Running"
  /\ Len(batch) = 1 /\ batch[1].depth = 0
  /\ tasks[1].cb = "processed" /\ tasks[1].fetch # 0
  /\ fetches[tasks[1].fetch].status = "page"

\* link n of the seed page is internal, passes the filter and has a path
\* that matches a carta pattern
CartaLinkOfSeed(n) ==
  \E c \in {LinkClass[revision, domainUrl, FilterOptions(options),
                       PageLinks(site, batch[1].url)[n]]} :
    /\ c.valid /\ c.internal /\ c.passes
    /\ SomeTest(cartaPathPatterns, Pathname[c.linkHref])
    /\ splitSegments(Pathname[c.linkHref]) # <<>>

\* C11: with adaptiveSearch, when the links of the fetched seed page have been
\* processed, priorityPaths contains "/" followed by the (lower-cased) first
\* path segment of every internal, filter-passing link of that page whose
\* path matches a carta pattern.
C11_PriorityPathAfterFirstWave ==
  (adaptiveSearch /\ FirstWaveProcessed) =>
    \A n \in 1..Len(PageLinks(site, batch[1].url)) :
      CartaLinkOfSeed(n) =>
        \E href \in {LinkClass[revision, domainUrl, FilterOptions(options),
                                PageLinks(site, batch[1].url)[n]].linkHref} :
          <<"/">> \o toLowerCase(splitSegments(Pathname[href])[1])
            \in Range(priorityPaths)

\* the seed page of the carta site has been processed with adaptiveSearch
\* and one of its links is a carta link
C11_CartaLinkSeen ==
  /\ adaptiveSearch /\ FirstWaveProcessed
  /\ \E n \in 1..Len(PageLinks(site, batch[1].url)) : CartaLinkOfSeed(n)
  /\ priorityPaths # <<>>

\* s is an initial part of t: t keeps the elements of s, in their order
IsPrefix(s, t) == Len(s) <= Len(t) /\ SubSeq(t, 1, Len(s)) = s

\* C12: in every step of a crawl foundUrls, visitedUrls and priorityPaths
\* keep all their elements (the insertion-ordered sets only get new elements
\* at their end), and adaptiveMode, once true, stays true.
C12_CrawlStateMonotone ==
  [][/\ IsPrefix(foundUrls, foundUrls')
     /\ visitedUrls \subseteq visitedUrls'
     /\ IsPrefix(priorityPaths, priorityPaths')
     /\ adaptiveMode => adaptiveMode']_vars

\* a crawl has ended in adaptive mode after visiting several pages
C12_GrownAndAdaptive ==
  /\ pc = "Done" /\ adaptiveMode
  /\ Len(foundUrls) >= 3 /\ Cardinality(visitedUrls) >= 3
  /\ priorityPaths # <<>>

\* the frontier item the crawl starts from
SeedItem == [url |-> toString(baseUrl), depth |-> 0, noDepthLimit |-> FALSE]

\* in this step the callback of item i of the batch processes the links of
\* its fetched page
ProcessesPage(i) ==
  /\ Awaiting(i)
  /\ tasks'[i].cb = "processed"
  /\ fetches'[tasks[i].fetch].status = "page"

\* C13: the call puts the seed item (seed, 0, false), and nothing else, in the
\* frontier or in the first batch, and every later batch is taken from the
\* frontier; after the call an item enters the frontier only in a step that
\* processes the fetched page of an item (p, d - 1, np) linking to
\* it, with noDepthLimit = np or its path matching a carta pattern, and with
\* noDepthLimit true or depth < maxDepth.
C13_FrontierItemsWellFormed ==
  [][/\ batch' # batch =>
          IF pc = "Init" THEN batch' = <<SeedItem>>
          ELSE IsPrefix(batch', urlQueue)
     /\ \A j \in 1..Len(urlQueue') :
          urlQueue'[j] \notin Range(urlQueue) =>
            \E item \in {urlQueue'[j]} :
              IF pc = "Init" THEN item = SeedItem
              ELSE
                /\ item.noDepthLimit \/ item.depth < maxDepth
                /\ \E i \in 1..Len(batch) :
                     /\ ProcessesPage(i)
                     /\ LinksTo(batch[i].url, item.url)
                     /\ item.depth = batch[i].depth + 1
                     /\ item.noDepthLimit =
                          (batch[i].noDepthLimit
                             \/ SomeTest(cartaPathPatterns, Pathname[item.url]))]_vars

\* the frontier holds an item of depth 2 without depth limit and an item
\* that owes its place to the depth test
C13_MixedFrontier ==
  \E i, j \in 1..Len(urlQueue) :
    /\ urlQueue[i].depth = 2 /\ urlQueue[i].noDepthLimit
    /\ ~urlQueue[j].noDepthLimit

\* C14, as stated: a page is requested for an item only if the item has no
\* depth limit or its depth is below the maxDepth option, the value 0
\* included (with which not even the seed is fetched).  options.maxDepth = 0
\* is the option given as 0, which "options.maxDepth || 2" does not tell from
\* the option left out.
C14_DepthBoundByOption ==
  pc = "Running" =>
    \A i \in 1..Len(tasks) :
      tasks[i].fetch # 0 => batch[i].noDepthLimit \/ batch[i].depth < options.maxDepth

\* C14, for the depth limit the code works with (2 when the option is 0): a
\* page is requested for an item only if the item has no depth limit or its
\* depth is below maxDepth.
C14_DepthBoundEffective ==
  pc = "Running" =>
    \A i \in 1..Len(tasks) :
      tasks[i].fetch # 0 => batch[i].noDepthLimit \/ batch[i].depth < maxDepth

\* every callback of the wave in progress is over
EndOfWave == pc = "Running" /\ \A i \in 1..Len(tasks) : ~Awaiting(i)

\* C15: a step taken at the end of a wave with foundUrls.size >= maxUrls
\* dequeues nothing and starts no page fetch, and when it leaves the loop
\* it does so by CapReached; once the loop is left, nothing is dequeued and
\* no page fetch is started any more.
C15_CapReachedStops ==
  [][/\ (EndOfWave /\ Len(foundUrls) >= maxUrls) =>
          /\ UNCHANGED <<urlQueue, batch, visitedUrls>>
          /\ Len(fetches') = Len(fetches)
          /\ pc' # "Running" => exitPath' = "CapReached"
     /\ (exitPath \in ExitPaths) =>
          /\ UNCHANGED <<urlQueue, batch, visitedUrls, exitPath>>
          /\ Len(fetches') = Len(fetches)]_vars

\* a crawl has ended by CapReached after a wave, with an item left in the
\* frontier whose page was never requested
C15_LeftInFrontier ==
  /\ pc = "Done" /\ exitPath = "CapReached"
  /\ fetches # <<>>
  /\ \E j \in 1..Len(urlQueue) :
       /\ urlQueue[j].url \notin visitedUrls
       /\ urlQueue[j].url \notin Range(FetchedUrls)

\* the linkHref of the links of the sites that are classified internal (TRUE)
\* or external (FALSE)
\* (no link is classified when the seed does not parse)
HrefsClassified(internal) ==
  IF domainUrl \notin ValidSeeds THEN {}
  ELSE {c.linkHref :
          c \in {d \in {LinkClass[revision, domainUrl, FilterOptions(options), link] :
                          link \in AllLinks} : d.valid /\ d.internal = internal}}

\* some link of the site has linkHref u and is classified internal (TRUE) or
\* external (FALSE)
ClassifiedAs(u, internal) == u \in HrefsClassified(internal)

\* C16: externalUrls is empty unless includeExternalLinks is set and holds
\* only URLs classified external; every URL of foundUrls and of the frontier
\* other than the seed was classified internal and none was classified
\* external; foundUrls and externalUrls are disjoint.
C16_ExternalKeptApart ==
  \E int \in {HrefsClassified(TRUE)} : \E ext \in {HrefsClassified(FALSE)} :
    /\ externalUrls # <<>> => includeExternalLinks
    /\ \A u \in Range(externalUrls) : u \in ext /\ u \notin int
    /\ \A u \in Range(foundUrls) \cup Range(QueueUrls) :
         \/ pc # "Init" /\ u = toString(baseUrl)
         \/ u \in int /\ u \notin ext
    /\ Range(foundUrls) \cap Range(externalUrls) = {}

\* a page with an external link has been processed: the link is in
\* externalUrls, and internal links of the page are in foundUrls
C16_ExternalRecorded ==
  /\ externalUrls # <<>>
  /\ Len(foundUrls) >= 2

\* listDomainUrls has returned a result for a crawl with filterMode 'none'
ReturnedUnfiltered == result.kind = "value" /\ filterMode = "none"

\* C17, as stated: with filterMode 'none' the returned filteredUrls is the
\* returned urls, element for element in the same sequence.
C17_FilteredEqualsUrls ==
  ReturnedUnfiltered => result.value.filteredUrls = result.value.urls

\* C17, amended: with filterMode 'none' the returned filteredUrls has exactly
\* the elements of the returned urls, each once, in the order of the final
\* sort (first path segment, then the whole URL string).
C17_FilteredIsSortedUrls ==
  ReturnedUnfiltered =>
    \E f \in {result.value.filteredUrls} :
      /\ Range(f) = Range(result.value.urls)
      /\ Len(f) = Len(result.value.urls)
      /\ \A i, j \in 1..Len(f) : i < j => UrlOrder[f[i], f[j]] < 0

\* a crawl with filterMode 'none' has returned URLs discovered in another
\* order than the sorted one
C17_ReturnedReordered ==
  /\ ReturnedUnfiltered
  /\ Len(result.value.urls) >= 3
  /\ result.value.filteredUrls # result.value.urls

\* the exclude patterns of the crawl reject a URL (its string or its path)
ExcludedUrl(u) ==
  \E k \in 1..Len(excludePatternsOf(options)) :
     \/ RegExpTest(excludePatternsOf(options)[k], u)
     \/ RegExpTest(excludePatternsOf(options)[k], toLowerCase(Pathname[u]))

\* C18: in the documented example (seed https://example.com linking to /menu,
\* /about and /menu/pdf.pdf, built-in menu patterns) /about and /menu/pdf.pdf
\* are rejected by the exclude patterns and never found, /menu is accepted,
\* and the returned filteredUrls is exactly <<https://example.com/menu>>
C18_ExampleCrawl ==
  /\ ExcludedUrl(UrlAbout) /\ ExcludedUrl(UrlPdf) /\ ~ExcludedUrl(UrlMenu)
  /\ UrlAbout \notin Range(foundUrls) /\ UrlPdf \notin Range(foundUrls)
  /\ Range(foundUrls) \subseteq {UrlRoot, UrlMenu}
  /\ FirstWaveProcessed => foundUrls = <<UrlRoot, UrlMenu>>
  /\ (result.kind = "value" /\ UrlMenu \in Range(result.value.urls))
       => result.value.filteredUrls = <<UrlMenu>>

\* the example has been crawled and returned: /menu was found and is the
\* only filtered URL
C18_ExampleReturned ==
  /\ site = ExampleSiteIndex
  /\ result.kind = "value"
  /\ result.value.urls = <<UrlRoot, UrlMenu>>
  /\ result.value.filteredUrls = <<UrlMenu>>

\* the href a link has once normalised
NormalizedOnce == normalized[2]

\* C19: normalising is idempotent, normalize(normalize(u)) = normalize(u) for
\* every URL u, and a normalised URL has no fragment, no query string and no
\* trailing slash unless its path is the root
C19_NormalizeIdempotent ==
  /\ Len(normalized) >= 2 =>
       \E u \in {ParseURL(NormalizedOnce)} :
          /\ u.ok /\ ~u.hasHash /\ ~u.hasQuery
          /\ u.pathname = <<"/">> \/ u.pathname[Len(u.pathname)] # "/"
  /\ \A n \in 3..Len(normalized) : normalized[n] = NormalizedOnce

\* a URL with a fragment, a query string and several trailing slashes has
\* been normalised twice
C19_NormalizedTwice ==
  /\ Len(normalized) = 3
  /\ \E u \in {ParseURL(normalized[1])} :
        u.hasHash /\ u.hasQuery /\ Len(u.pathname) >= 3
        /\ SubSeq(u.pathname, Len(u.pathname) - 1, Len(u.pathname)) = <<"/", "/">>
  /\ normalized[2] # normalized[1]

\* C20, as stated: the loser of the per-page race is cancelled, so that a
\* scrapeWebPage call whose callback lost the race to the per-page timer
\* takes no further step (no response read, no rendered fetch started or
\* finished) after that moment.
C20_LoserOfRaceCancelled ==
  [][\A k \in 1..Len(fetches) :
       (Pending(k) /\ Abandoned(k)) => fetches'[k] = fetches[k]]_vars

\* the scrapeWebPage calls in flight: started and not settled
InFlight == {k \in 1..Len(fetches) : Pending(k)}

\* C21, as stated: at every moment at most batchSize page fetches are in
\* flight, and each wave holds between 1 and batchSize items.
C21_InFlightWithinBatchSize ==
  /\ Cardinality(InFlight) <= batchSize
  /\ pc = "Running" => (1 <= Len(batch) /\ Len(batch) <= batchSize)

\* what the code does bound: the items of a wave and the callbacks awaiting
\* their race
C21_WaveWithinBatchSize ==
  pc = "Running" =>
    /\ 1 <= Len(batch) /\ Len(batch) <= batchSize
    /\ Cardinality({i \in 1..Len(tasks) : Awaiting(i)}) <= batchSize

\* the browsers launched and not closed
OpenInstances == {n \in 1..Len(instances) : instances[n] = "open"}

\* rendered fetch r holds a browser and has not finished with it
UsesBrowser(r) == renders[r].at \in {"newPage", "goto", "content", "close"}

\* C22, as stated: at most one browser is launched and not closed, and the
\* rendered fetches running at the same time all use that one browser.
C22_SingleSharedBrowser ==
  /\ Cardinality(OpenInstances) <= 1
  /\ \A r1, r2 \in 1..Len(renders) :
       (UsesBrowser(r1) /\ UsesBrowser(r2)) => renders[r1].instance = renders[r2].instance

\* C23, as stated: no closeBrowser call closes a browser that a rendered
\* fetch still in progress is using.
C23_ClosedOnlyWhenUnused ==
  [][\A n \in 1..Len(instances) :
       (instances[n] = "open" /\ instances'[n] = "closed")
         => \A r \in 1..Len(renders) : ~(UsesBrowser(r) /\ renders[r].instance = n)]_vars

\* the depths of a sequence of frontier items never decrease
DepthsAscend(items) ==
  \A i, j \in 1..Len(items) : i < j => items[i].depth <= items[j].depth

\* C24, as stated: over a whole crawl the depth of the dequeued items never
\* decreases, inside a wave and from one wave to the next, whatever the order
\* in which the pages of a wave complete.
C24_DequeuedDepthsAscend ==
  [][/\ DepthsAscend(batch')
     /\ (batch' # batch /\ batch # <<>> /\ batch' # <<>>)
          => batch[Len(batch)].depth <= batch'[1].depth]_vars

\* what the queue does guarantee: items leave the frontier in the order in
\* which they entered it
C24_FifoByWave ==
  [][batch' # batch =>
       \/ pc = "Init"
       \/ /\ IsPrefix(batch', urlQueue)
          /\ Len(batch') = Min(batchSize, Len(urlQueue))]_vars

(***************************************************************************)
(* The crawl in which every page is fetched and the pages of each wave     *)
(* complete in the order of the wave, computed wave by wave with the       *)
(* operators of the loop.                                                  *)
(***************************************************************************)
\* the callbacks of a wave resumed one after the other, in the order of the wave
RECURSIVE completeInOrder(_, _, _, _)
completeInOrder(st, items, started, i) ==
  IF i > Len(items) THEN st
  ELSE The({completeInOrder(next, items, started, i + 1) :
              next \in {IF started[i].cb = "awaiting"
                          THEN processLinks(st, PageLinks(site, items[i].url),
                                            items[i].depth, items[i].noDepthLimit)
                          ELSE st}})

\* the while loop from a crawl state on, without deadline: what it has found
\* and fetched when it ends
RECURSIVE crawlInOrder(_, _, _, _)
crawlInOrder(st, visited, mode, fetched) ==
  IF st.queue = <<>> \/ Len(st.found) >= maxUrls
    THEN [found |-> st.found, priority |-> st.priority, fetched |-> fetched]
  ELSE
    The({The({The({crawlInOrder(
                     done, started.visited,
                     IF adaptiveSearch /\ ~mode /\ Len(done.priority) > 0
                        /\ \A i \in 1..n : st.queue[i].depth > 0
                       THEN TRUE ELSE mode,
                     fetched \cup {started.fetches[k].url : k \in 1..Len(started.fetches)}) :
                done \in {completeInOrder([st EXCEPT !.queue = SubSeq(@, n + 1, Len(@))],
                                          SubSeq(st.queue, 1, n), started.tasks, 1)}}) :
           started \in {startBatch([visited |-> visited, fetches |-> <<>>, tasks |-> <<>>],
                                   SubSeq(st.queue, 1, n), mode, st.priority)}}) :
      n \in {Min(batchSize, Len(st.queue))}})

\* the outcome of that crawl for the request of this run
InOrderOutcome ==
  crawlInOrder([found |-> <<toString(baseUrl)>>, external |-> <<>>, priority |-> <<>>,
                queue |-> <<SeedItem>>], {}, FALSE, {})

\* listDomainUrls has returned, no timer has fired and every page fetched
\* returned a snapshot
CleanRun ==
  /\ pc = "Done"
  /\ result.kind = "value"
  /\ elapsed = 0
  /\ \A k \in 1..Len(fetches) : fetches[k].status = "page"

\* C25, as stated: without timeouts the outcome of a crawl does not depend on
\* the order in which the pages of a wave complete; every such run finds the
\* same URLs, fetches the same pages and records the same priorityPaths as
\* the run in which the pages complete in the order of the wave.
C25_OrderDoesNotMatter ==
  CleanRun =>
    \E o \in {InOrderOutcome} :
       /\ Range(foundUrls) = Range(o.found)
       /\ Range(FetchedUrls) = o.fetched
       /\ Range(priorityPaths) = Range(o.priority)

\* the run in which the pages complete in the order of the wave is a run of
\* the crawler: its outcome, sequences included, is reached
C25_InOrderRunReached ==
  CleanRun /\ Len(fetches) >= 4 /\
    \E o \in {InOrderOutcome} :
       /\ foundUrls = o.found
       /\ Range(FetchedUrls) = o.fetched
       /\ priorityPaths = o.priority

\* the pair (first path segment, URL string) of a precedes that of b
KeyBefore(a, b) ==
  \E aSegs \in {splitSegments(Pathname[a])} : \E bSegs \in {splitSegments(Pathname[b])} :
     \E aSub \in {IF aSegs = <<>> THEN <<>> ELSE aSegs[1]} :
        \E bSub \in {IF bSegs = <<>> THEN <<>> ELSE bSegs[1]} :
           \/ strLess(aSub, bSub)
           \/ aSub = bSub /\ strLess(a, b)

\* C26: the returned filteredUrls is strictly ascending by the pair (first
\* non-empty path segment, full URL string): sorted, URLs without a path
\* segment first, and no URL twice.
C26_FilteredUrlsSorted ==
  result.kind = "value" =>
    \E f \in {result.value.filteredUrls} :
       \A i \in 1..(Len(f) - 1) : KeyBefore(f[i], f[i + 1])

\* a result whose filteredUrls starts with the root, holds URLs of two
\* segments, and is not in the order of discovery
C26_ReturnedSorted ==
  /\ result.kind = "value"
  /\ \E f \in {result.value.filteredUrls} :
       /\ Len(f) >= 3
       /\ splitSegments(Pathname[f[1]]) = <<>>
       /\ Head(splitSegments(Pathname[f[2]])) # Head(splitSegments(Pathname[f[Len(f)]]))
       /\ \E i, j \in 1..Len(foundUrls) :
            i < j /\ foundUrls[i] \in Range(f) /\ foundUrls[j] \in Range(f)
            /\ KeyBefore(foundUrls[j], foundUrls[i])

\* a pattern of the list matches one of the strings
MatchesAny(patterns, strs) ==
  \E k \in 1..Len(patterns) : \E s \in strs : RegExpTest(patterns[k], s)

\* the decision on a link whose normalised URL is href: always accepted with
\* mode None; else rejected when an exclude pattern matches the URL or the
\* path; else accepted when no include pattern is configured or one matches
\* the URL, the path or the anchor text
FilterAccepts(href, text) ==
  \/ filterMode = "none"
  \/ /\ ~MatchesAny(excludePatternsOf(options), {href, toLowerCase(Pathname[href])})
     /\ \/ includePatternsOf(revision, options) = <<>>
        \/ MatchesAny(includePatternsOf(revision, options),
                      {href, toLowerCase(Pathname[href]), toLowerCase(text)})

\* the internal links of a page that the decision accepts
AcceptedLinks(pageUrl) ==
  LET links    == PageLinks(site, pageUrl)
      class(n) == LinkClass[revision, domainUrl, FilterOptions(options), links[n]]
  IN  {class(n).linkHref :
         n \in {m \in 1..Len(links) :
                  /\ class(m).valid
                  /\ class(m).internal
                  /\ FilterAccepts(class(m).linkHref, links[m].text)}}

\* C27: the internal links of a processed page that enter found are exactly
\* those the decision accepts: every link with mode None; otherwise none that
\* an exclude pattern matches (URL or path), even if an include pattern
\* matches too; and, of the others, all when no include pattern is configured,
\* else those an include pattern matches by URL, path or anchor text.
C27_FilterDecision ==
  [][\A i \in 1..Len(batch) :
       ProcessesPage(i) =>
         Range(foundUrls') = Range(foundUrls) \cup AcceptedLinks(batch[i].url)]_vars

\* the example page has been processed with include and exclude patterns
\* configured: /menu/pdf.pdf, which an include and an exclude pattern match,
\* is rejected, and a link is accepted
C27_ExcludeWon ==
  /\ FirstWaveProcessed
  /\ filterMode # "none"
  /\ includePatternsOf(revision, options) # <<>>
  /\ MatchesAny(includePatternsOf(revision, options), {UrlPdf})
  /\ MatchesAny(excludePatternsOf(options), {UrlPdf})
  /\ UrlPdf \notin Range(foundUrls)
  /\ Len(foundUrls) >= 2

\* the request supplies custom patterns
CustomSupplied == options.customExcludePatterns.given \/ options.customIncludePatterns.given

\* C28, as stated: the patterns the caller supplies are used only with mode
\* Custom; with mode Menu the built-in exclude and include sets are used
\* whether or not custom patterns were supplied.
C28_PatternsByMode ==
  /\ (pc # "Init" /\ filterMode = "menu") =>
       /\ excludePatternsOf(options) = defaultExcludePatterns
       /\ includePatternsOf(revision, options)
            = (IF revision = Current THEN menuIncludePatterns ELSE legacyMenuIncludePatterns)
       /\ UrlAbout \notin Range(foundUrls)
  /\ (pc # "Init" /\ CustomSupplied /\ filterMode # "custom") =>
       /\ excludePatternsOf(options) # CustomExclude.patterns
       /\ includePatternsOf(revision, options) # CustomInclude.patterns

\* what the code does: supplied patterns are used in every mode, the
\* built-in exclude set is used when none is supplied, and the built-in
\* include set only with mode Menu when none is supplied
C28_PatternsBySupply ==
  /\ excludePatternsOf(options) =
       (IF options.customExcludePatterns.given THEN options.customExcludePatterns.patterns
        ELSE defaultExcludePatterns)
  /\ includePatternsOf(revision, options) =
       (IF options.customIncludePatterns.given THEN options.customIncludePatterns.patterns
        ELSE IF filterMode # "menu" THEN <<>>
        ELSE IF revision = Current THEN menuIncludePatterns ELSE legacyMenuIncludePatterns)

\* the steps of one fetchPageContent call, by revision.  part_005: the plain
\* fetch returns the page, answers 404 ("empty", no fallback) or fails and
\* the rendered fetch starts; the rendered fetch returns the page or fails
\* ("unreachable").  web-scraping.ts: no 404 case, and the failure of the
\* rendered fetch is an error.
FetchSteps ==
  IF revision = Current
    THEN {<<"plain", "page">>, <<"plain", "empty">>, <<"plain", "render">>,
          <<"render", "page">>, <<"render", "unreachable">>}
    ELSE {<<"plain", "page">>, <<"plain", "render">>,
          <<"render", "page">>, <<"render", "error">>}

\* C29: a page fetch makes at most one plain GET and at most one rendered
\* navigation and is never retried: a call only moves along plain -> render ->
\* settled and a settled call stays as it is.  In part_005 a mailto: or tel:
\* URL yields empty content with no fetch at all, a 404 yields empty content
\* without rendered fallback, and every other failure of the plain fetch
\* starts the one rendered fetch.
C29_NoRetryAndShortCircuits ==
  [][/\ Len(fetches') >= Len(fetches)
     /\ \A k \in 1..Len(fetches) :
          /\ fetches'[k].url = fetches[k].url
          /\ \/ fetches'[k].status = fetches[k].status
             \/ /\ <<fetches[k].status, fetches'[k].status>> \in FetchSteps
                /\ ~(revision = Current /\ isNonHttp(fetches[k].url))
     /\ \A k \in (Len(fetches) + 1)..Len(fetches') :
          fetches'[k].status =
            IF revision = Current /\ isNonHttp(fetches'[k].url) THEN "empty" ELSE "plain"
    ]_vars

\* in part_005 one page was answered 404 and returned empty content, and for
\* another the plain fetch failed and the one rendered fetch failed too
C29_ShortCircuitAndFallback ==
  /\ revision = Current
  /\ \E k, n \in 1..Len(fetches) :
       /\ fetches[k].status = "empty" /\ ~isNonHttp(fetches[k].url)
       /\ fetches[n].status = "unreachable"

\* this step is the continuation of a completed wave: the next wave starts
\* or the loop is left
WaveEnds == EndOfWave /\ (pc' # "Running" \/ batch' # batch)

\* the wave in progress satisfies the condition of the adaptive latch
LatchCondition ==
  /\ adaptiveSearch
  /\ \A i \in 1..Len(batch) : batch[i].depth > 0
  /\ priorityPaths # <<>>

\* C30: adaptiveMode changes only from false to true, only in the step that
\* ends a wave, and it does so exactly when adaptiveSearch is true, every
\* item of that wave has depth > 0 and priorityPaths is non-empty; it never
\* changes while a wave is processed, and an item is pruned only in a wave
\* that runs in adaptive mode.
C30_AdaptiveLatch ==
  [][/\ adaptiveMode' # adaptiveMode => (~adaptiveMode /\ WaveEnds /\ LatchCondition)
     /\ (WaveEnds /\ LatchCondition) => adaptiveMode'
     /\ (WaveEnds /\ ~LatchCondition) => adaptiveMode' = adaptiveMode
     /\ \A i \in 1..Len(tasks') : tasks'[i].cb = "pruned" => adaptiveMode'
    ]_vars

\* adaptive mode was latched at the end of an earlier wave, and in the wave
\* in progress one item was pruned while another is being fetched
C30_LatchedThenPruned ==
  /\ pc = "Running"
  /\ adaptiveMode
  /\ priorityPaths # <<>>
  /\ \A i \in 1..Len(batch) : batch[i].depth >= 2
  /\ \E i, j \in 1..Len(tasks) : tasks[i].cb = "pruned" /\ tasks[j].cb = "awaiting"

(***************************************************************************)
(* The global deadline                                                     *)
(***************************************************************************)
\* a step that starts a wave: a batch is dequeued and its callbacks start
WaveStarts == pc' = "Running" /\ batch' # batch

\* C31: the deadline of listDomainUrls is absolute and tested at the top of a
\* wave only: the clock read against timeoutMs runs from the start of the
\* crawl and is never set back, a wave starts only with the elapsed time
\* within timeoutMs, a wave with a callback still awaiting is left alone
\* (the loop is not left and timedOut is not set), and timedOut is set only
\* on leaving the loop with the elapsed time above timeoutMs.
C31_AbsoluteDeadline ==
  [][/\ pc # "Init" => elapsed' >= elapsed
     /\ WaveStarts => (elapsed' <= timeoutMs /\ waveStart' = elapsed')
     /\ (pc = "Running" /\ \E i \in 1..Len(tasks) : Awaiting(i))
          => (pc' = "Running" /\ UNCHANGED <<batch, timedOut, exitPath, waveStart>>)
     /\ (timedOut' /\ ~timedOut)
          => (exitPath' = "DeadlineExceeded" /\ pc' \in {"Closing", "Done"}
              /\ elapsed' > timeoutMs)]_vars

\* a wave that started after the first one, within the deadline, went on
\* past the deadline, had a page processed, and the crawl then left the loop
\* on the deadline
C31_WaveOutlivedDeadline ==
  /\ exitPath = "DeadlineExceeded"
  /\ waveStart > 0 /\ waveStart <= timeoutMs
  /\ elapsed > timeoutMs
  /\ \E i \in 1..Len(tasks) :
       /\ tasks[i].cb = "processed" /\ tasks[i].fetch # 0
       /\ fetches[tasks[i].fetch].status = "page"

(***************************************************************************)
(* The filter of the result                                                *)
(***************************************************************************)
\* C32: with a filter mode other than none, the URLs of filteredUrls are
\* exactly the URLs of foundUrls whose string matches one of the configured
\* include patterns, all of foundUrls when none is configured (the exclude
\* patterns play no part); and with any mode the URLs of filteredUrls are
\* URLs of urls, which is foundUrls.
C32_FilteredByIncludeOnly ==
  pc = "Done" =>
    \E inc \in {includePatternsOf(revision, options)} :
      /\ result.value.urls = foundUrls
      /\ Range(result.value.filteredUrls) \subseteq Range(result.value.urls)
      /\ filterMode # "none" =>
           Range(result.value.filteredUrls) =
             {u \in Range(foundUrls) : inc = <<>> \/ MatchesAny(inc, {u})}

\* a crawl with a filter mode has returned a URL in filteredUrls that matches
\* one of its exclude patterns
C32_ExcludedUrlReturned ==
  /\ pc = "Done"
  /\ filterMode # "none"
  /\ \E u \in Range(result.value.filteredUrls) :
       MatchesAny(excludePatternsOf(options), {u, toLowerCase(Pathname[u])})

(***************************************************************************)
(* Pruned items and visitedUrls                                            *)
(***************************************************************************)
\* the visited URLs for which no scrapeWebPage call was ever made
VisitedUnfetched == visitedUrls \ Range(FetchedUrls)

\* C33: the URL of a pruned item is in visitedUrls although no page was
\* requested for it, and a visited URL whose page was never requested is not
\* requested in any later step.
C33_PrunedIsVisitedNeverFetched ==
  [][/\ \A i \in 1..Len(tasks) :
          tasks[i].cb = "pruned" =>
            (tasks[i].fetch = 0 /\ batch[i].url \in VisitedUnfetched)
     /\ \A u \in VisitedUnfetched : u \in VisitedUnfetched']_vars

\* a URL was pruned in an earlier wave, and a later wave, in which nothing
\* is pruned, has requested a page
C33_CrawlWentOnAfterPruning ==
  /\ pc = "Running"
  /\ VisitedUnfetched # {}
  /\ \A i \in 1..Len(tasks) : tasks[i].cb # "pruned"
  /\ \E i \in 1..Len(tasks) : tasks[i].fetch # 0

(***************************************************************************)
(* The priority paths come from the seed page                              *)
(***************************************************************************)
\* the page of URL u has a link that is internal, passes the filter and has a
\* path that matches a carta pattern
HasCartaLink(u) ==
  \E n \in 1..Len(PageLinks(site, u)) :
    \E c \in {LinkClass[revision, domainUrl, FilterOptions(options), PageLinks(site, u)[n]]} :
      /\ c.valid /\ c.internal /\ c.passes
      /\ SomeTest(cartaPathPatterns, toLowerCase(Pathname[c.linkHref]))
      /\ splitSegments(Pathname[c.linkHref]) # <<>>

\* C34: priorityPaths changes only in the step in which the callback of the
\* depth-0 seed item, still awaiting, receives the fetched seed page (with
\* adaptiveSearch on); no step of a wave with an item of depth > 0 changes
\* it; and priorityPaths is empty, and adaptiveMode false, unless the seed
\* page was fetched and has a carta link.
C34_PriorityPathsFromSeedPageOnly ==
  [][/\ priorityPaths' # priorityPaths =>
          /\ adaptiveSearch
          /\ pc = "Running" /\ Len(batch) = 1 /\ batch[1].depth = 0
          /\ tasks[1].cb = "awaiting" /\ tasks'[1].cb = "processed"
          /\ fetches'[tasks[1].fetch].status = "page"
     /\ (pc = "Running" /\ \E i \in 1..Len(batch) : batch[i].depth > 0)
          => priorityPaths' = priorityPaths
     /\ adaptiveMode => priorityPaths # <<>>
     /\ priorityPaths # <<>> =>
          (fetches[1].status = "page" /\ HasCartaLink(fetches[1].url))]_vars

\* on the cellar site, whose seed page has no carta link, a page of a later
\* wave with a carta link has been processed with adaptiveSearch on, and
\* priorityPaths is still empty
C34_CartaLinkBelowSeedIgnored ==
  /\ site = CellarSiteIndex
  /\ adaptiveSearch
  /\ pc = "Running"
  /\ priorityPaths = <<>> /\ ~adaptiveMode
  /\ \E i \in 1..Len(batch) :
       /\ batch[i].depth > 0
       /\ tasks[i].cb = "processed" /\ tasks[i].fetch # 0
       /\ fetches[tasks[i].fetch].status = "page"
       /\ HasCartaLink(batch[i].url)

(***************************************************************************)
(* The exemption from maxDepth                                             *)
(***************************************************************************)
\* the path of URL u matches a carta pattern
IsCartaPath(u) == SomeTest(cartaPathPatterns, Pathname[u])

\* C35: whatever adaptiveSearch and priorityPaths are, a URL with a carta
\* path that enters foundUrls after the call enters the frontier in the same
\* step with noDepthLimit true, whatever its depth; and an item without
\* depth limit is skipped only because its URL was visited, so its page is
\* requested at any depth.
C35_CartaBranchExempt ==
  [][/\ pc # "Init" =>
          \A u \in Range(foundUrls') \ Range(foundUrls) :
            IsCartaPath(u) =>
              \E j \in 1..Len(urlQueue') :
                /\ urlQueue'[j].url = u /\ urlQueue'[j].noDepthLimit
                /\ urlQueue'[j] \notin Range(urlQueue)
     /\ pc = "Running" =>
          \A i \in 1..Len(tasks) :
            (batch[i].noDepthLimit /\ tasks[i].cb = "skipped")
              => batch[i].url \in visitedUrls]_vars

\* with adaptiveSearch false and no priority path, the page of an item at or
\* beyond maxDepth that owes its exemption to its ancestor alone (its own
\* path is no carta path) has been fetched
C35_DescendantFetchedBeyondDepth ==
  /\ ~adaptiveSearch
  /\ priorityPaths = <<>>
  /\ pc = "Running"
  /\ \E i \in 1..Len(batch) :
       /\ batch[i].depth >= maxDepth
       /\ batch[i].noDepthLimit /\ ~IsCartaPath(batch[i].url)
       /\ tasks[i].fetch # 0
       /\ fetches[tasks[i].fetch].status = "page"

(***************************************************************************)
(* The normal form of the URLs of foundUrls                                *)
(***************************************************************************)
\* u is what the normalisation of the loop body makes of it
IsNormalized(u) == normalizeHref(u) = u

\* C36, as stated, for the revision that normalises its links: every URL of
\* foundUrls, the seed included, is in normalised form, no two URLs of
\* foundUrls have the same normal form, and no two scrapeWebPage calls are
\* made for URLs with the same normal form.
C36_FoundNormalized ==
  revision = Current =>
    /\ \A u \in Range(foundUrls) : IsNormalized(u)
    /\ \A i, j \in 1..Len(foundUrls) :
         normalizeHref(foundUrls[i]) = normalizeHref(foundUrls[j]) => i = j
    /\ \A k, l \in 1..Len(fetches) :
         normalizeHref(fetches[k].url) = normalizeHref(fetches[l].url) => k = l

\* what the code ensures: in the current revision every URL of foundUrls
\* other than the seed is in normalised form
C36_LinksNormalized ==
  revision = Current => \A i \in 2..Len(foundUrls) : IsNormalized(foundUrls[i])

\* the page of /vinos/ has been fetched as the seed and is requested again
\* under the normal form of its URL, found as a link on itself
C36_SamePageFetchedTwice ==
  \E k, l \in 1..Len(fetches) :
    /\ revision = Current
    /\ k < l
    /\ fetches[k].url # fetches[l].url
    /\ normalizeHref(fetches[k].url) = normalizeHref(fetches[l].url)
    /\ fetches[k].status = "page"

(***************************************************************************)
(* The pages of the rendered fetches                                       *)
(***************************************************************************)
\* the rendered fetch r has returned, with the content or with ''
Returned(r) == renders[r].at \in {"returned", "puppeteerErr"}

\* the page that rendered fetch r opened is still open (a page does not
\* outlive its browser)
PageOpen(r) ==
  /\ renders[r].page = "open"
  /\ instances[renders[r].instance] = "open"

\* C37, as stated: a rendered fetch that has returned, with the content or
\* after a failure, has no page open.
C37_PagesClosedOnReturn ==
  \A r \in 1..Len(renders) : Returned(r) => ~PageOpen(r)

\* what the code ensures: a rendered fetch that returned the content has
\* closed its page, and one that failed before it had a page has none
C37_PageClosedOnSuccess ==
  \A r \in 1..Len(renders) :
    /\ renders[r].at = "returned" => renders[r].page = "closed"
    /\ renders[r].at \in {"launch", "newPage"} => renders[r].page = "none"

(***************************************************************************)
(* The browser after the crawl has returned                                *)
(***************************************************************************)
\* every closeBrowser call made so far has returned, and one was made: the
\* crawl that ended with it has returned its result
CloseBrowserReturned ==
  /\ closers # <<>>
  /\ \A c \in 1..Len(closers) : closers[c].at = "return"

\* C38, as stated: once closeBrowser has returned no browser is open and no
\* rendered fetch is launching one.
C38_NoBrowserAfterReturn ==
  CloseBrowserReturned =>
    /\ OpenInstances = {}
    /\ \A r \in 1..Len(renders) : renders[r].at # "launch"

\* in the crawl itself: listDomainUrls has returned while the plain fetch of
\* one of its scrapeWebPage calls, whose callback lost the per-page race, is
\* still pending; its failure starts a rendered fetch after the return
C38_FetchPendingAfterReturn ==
  /\ revision = Current
  /\ pc = "Done"
  /\ \E k \in 1..Len(fetches) : fetches[k].status = "plain" /\ ENABLED PlainFail(k)
=============================================================================
